---------------------------- MODULE Spec2Model ----------------------------
(***************************************************************************)
(* Autoscale: load-cell firmware (src/src/main.cpp), ingest edge function  *)
(* (src/supabase/functions/ingest-weight/index.ts) and the job worker      *)
(* (src/unnamed/part_000).                                                 *)
(*                                                                         *)
(* The specifications share the module's variables; each leaves the        *)
(* other components' variables unchanged:                                  *)
(*   SpecWorker     the job queue and concurrent worker invocations        *)
(*   SpecIngest     the ingest endpoint                                    *)
(*   SpecServer     ingest, register-device and the worker, under every    *)
(*                  configuration of the secrets                           *)
(*   Spec           the device: the capture state machine of loop()        *)
(*   SpecCal        the device: the serial calibration commands            *)
(*   SpecArm        the device: IDLE polls every 200 ms up to the trigger  *)
(*   SpecFill       the device: an ACTIVE session filling the buffer       *)
(*   SpecAbandon    the device: a calibration command during a session     *)
(*   SpecTare       the device: tareWithTimeout                            *)
(*   SpecStableRaw  the device: readStableRaw                              *)
(*   SpecPlateau    the device: waitStableRawPlateau                       *)
(*   SpecRefine     the worker: consensusRefineV2                          *)
(*   SpecDetect     the worker: detectStablePlateauV6                      *)
(***************************************************************************)
EXTENDS Integers, Sequences, FiniteSets, TLC

VARIABLES
  \* ---- server: database tables ----
  weight_events,         \* table weight_events, in insertion order (id = index)
  weight_event_jobs,     \* table weight_event_jobs, in created_at order (id = index)
  weight_event_results,  \* table weight_event_results, in insertion order
  scales,                \* table scales: the registered device rows
  \* ---- server: worker invocations ----
  wpc,                   \* per worker: position inside the handler
  wjobs,                 \* per worker: the `jobs` array returned by the select
  widx,                  \* per worker: index of the job being processed
  wresp,                 \* per worker: last HTTP response
  \* ---- server: ingest ----
  iresp,                 \* last response of the ingest endpoint
  rresp,                 \* last response of the register-device endpoint
  \* ---- server: environment ----
  env,                   \* Deno.env secrets
  \* ---- device ----
  clock,                 \* milliseconds elapsed since boot (unbounded ghost of millis())
  g_state, g_buf, session_t0, below_start_ms, g_pauseUntilMs, g_calInProgress,
  armOk, armBelowStartMs, prevIdleKgEMA, idleKgEMA, emaInit, nextIdleLogMs,
  adcReady,              \* scale.is_ready()
  currentCalFactor, nvs, scaleOffset,
  calHasP1, calHasP2, calP1, calP2,
  ev,                    \* history: what the last step did
  termClock,             \* history: clock at the last session termination, -1 if none
  bandSince,             \* history: clock since which idleKgEMA is in the arm band, -1 if not
  stableSeen,            \* history: the EMA stayed in the band for ARM_STABLE_MS since termClock
  cmdLeft,               \* history: command lines the capture specification still accepts
  \* ---- one routine run on its own ----
  call                   \* activation record of the routine: parameters, locals, position

serverVars == <<weight_events, weight_event_jobs, weight_event_results, scales>>
workerVars == <<wpc, wjobs, widx, wresp>>
ingestVars == <<iresp, rresp>>
deviceVars == <<clock, g_state, g_buf, session_t0, below_start_ms, g_pauseUntilMs,
                g_calInProgress, armOk, armBelowStartMs, prevIdleKgEMA, idleKgEMA,
                emaInit, nextIdleLogMs, adcReady, currentCalFactor, nvs, scaleOffset,
                calHasP1, calHasP2, calP1, calP2, ev, termClock, bandSince, stableSeen,
                cmdLeft>>
callVars == <<call>>
restVars == <<serverVars, workerVars, ingestVars, env, deviceVars>>
vars == <<restVars, callVars>>

(***************************************************************************)
(* Bounds of the model                                                     *)
(***************************************************************************)
MaxJobs == 2        \* events/jobs enqueued in a run of SpecWorker
NWorkers == 2       \* concurrent worker invocations
MaxSamples == 2     \* length of the samples array of an ingest request
MaxEvents == 1      \* events accepted in a run of SpecIngest

Workers == 1..NWorkers

Min(a, b) == IF a <= b THEN a ELSE b
Max(a, b) == IF a >= b THEN a ELSE b
Abs(x) == IF x < 0 THEN -x ELSE x

(***************************************************************************)
(* Environment secrets (Deno.env.get): "" stands for an unset variable.    *)
(***************************************************************************)
EnvConfigs ==
  [ SB_URL : {"", "url"},
    SB_SERVICE_ROLE_KEY : {"", "key"},
    FUNCTION_SECRET : {"", "s1"},
    FUNCTION_SECRET_PROCESSOR : {"", "s2"},
    DEFAULT_HOUSEHOLD_ID : {"", "h1"} ]

FullEnv == [ SB_URL |-> "url", SB_SERVICE_ROLE_KEY |-> "key", FUNCTION_SECRET |-> "s1",
             FUNCTION_SECRET_PROCESSOR |-> "s2", DEFAULT_HOUSEHOLD_ID |-> "h1" ]

\* Values of the x-function-secret request header; "" stands for a missing header.
HeaderSecrets == {"", "s1", "s2", "bad"}

NoResp == [status |-> 0, picked |-> 0]

\* No routine is being run on its own.
NoCall == [fn |-> "none"]

(***************************************************************************)
(* Device part: initial values of the statics and globals                  *)
(***************************************************************************)
\* Weights are in units of 0.1 kg (one tenth of the source's float kilograms),
\* raw ADC values in counts, masses in grams, times in milliseconds.
MaxTyped == 1        \* command lines typed in a run of the capture specification

UnitsPerKg == 10
MAX_SAMPLES == 6000
IDLE_POLL_MS == 200
TRIGGER_KG == 40               \* 4.00 kg
RELEASE_KG == 30               \* 3.00 kg
BELOW_HOLD_MS == 2000
ACTIVE_MAX_MS == 90000
POST_ACTIVE_COOLDOWN_MS == 4000
ARM_BAND_KG == 10              \* 1.0 kg
ARM_STABLE_MS == 2500
RISE_MIN_KG == 2               \* 0.20 kg
CAL_COOLDOWN_MS == 3000        \* the literal 3000 of the calibration handlers
MIN_DELTA_COUNTS == 20000      \* the literal 20000 of cmdCalibrate

\* A calibration factor in counts per gram, kept as the exact quotient num/den.
Factor(n, d) == [num |-> n, den |-> d]
CAL_FACTOR == Factor(986323333, 100000)        \* 9863.23333f
NoKey == [has |-> FALSE, cal |-> Factor(0, 1)] \* NVS namespace "autoscale" without key "cal"
NoPoint == [mass |-> 0, raw |-> 0]

\* millis().  Every time value of a run stays below 2^31 (see MaxClock), where
\* the uint32_t sums, the uint32_t differences (always later minus earlier) and
\* the (int32_t) casts of differences in the source are the integer ones.
Millis == clock

EvBase == [op |-> "boot", out |-> "", term |-> "none", posts |-> 0, ok |-> FALSE,
           mass |-> 0, raw |-> 0, zeroRaw |-> 0]

\* State at the first loop() iteration: the globals' initialisers and setup()
\* with no saved factor and the boot tare skipped.
DeviceInit ==
  /\ clock = 0
  /\ g_state = "IDLE"
  /\ g_buf = <<>>
  /\ session_t0 = 0
  /\ below_start_ms = 0
  /\ g_pauseUntilMs = 0
  /\ g_calInProgress = FALSE
  /\ armOk = FALSE
  /\ armBelowStartMs = 0
  /\ prevIdleKgEMA = 0
  /\ idleKgEMA = 0
  /\ emaInit = FALSE
  /\ nextIdleLogMs = 0
  /\ adcReady = FALSE
  /\ currentCalFactor = CAL_FACTOR
  /\ nvs = NoKey
  /\ scaleOffset = 0
  /\ calHasP1 = FALSE
  /\ calHasP2 = FALSE
  /\ calP1 = NoPoint
  /\ calP2 = NoPoint
  /\ ev = EvBase
  /\ termClock = -1
  /\ bandSince = -1
  /\ stableSeen = FALSE
  /\ cmdLeft = MaxTyped

(***************************************************************************)
(* Server: tables                                                          *)
(***************************************************************************)
ServerInit ==
  /\ weight_events = <<>>
  /\ weight_event_jobs = <<>>
  /\ weight_event_results = <<>>
  /\ scales = {}

\* The job row created for a freshly inserted event (status defaults to
\* pending, attempts to 0, timestamps unset).
NewJob(event_id) ==
  [event_id |-> event_id, status |-> "pending", attempts |-> 0,
   picked_at |-> FALSE, done_at |-> FALSE, error |-> "null", picks |-> {}]

\* Derived metrics: peak_kg starts as null and becomes the first kg, then
\* Math.max(peak_kg, s.kg); has = FALSE stands for peak_kg === null.
RECURSIVE PeakFrom(_, _, _, _)
PeakFrom(parsed, i, has, peak) ==
  IF i > Len(parsed) THEN IF has THEN peak ELSE "null"
  ELSE PeakFrom(parsed, i + 1, TRUE,
                IF ~has THEN parsed[i].kg
                ELSE IF parsed[i].kg >= peak THEN parsed[i].kg ELSE peak)

PeakKg_first(parsed) == IF parsed = <<>> THEN "null" ELSE parsed[1].kg
PeakKg(parsed) == PeakFrom(parsed, 1, FALSE, 0)

\* The row written to weight_events.
EventRow(scale_row_id, parsed) ==
  [scale_id |-> scale_row_id, samples |-> parsed,
   sample_count |-> Len(parsed), peak_kg |-> PeakKg(parsed)]

\* Events the worker specification enqueues: one with samples, one without.
WorkerEventSamples == { <<>>, <<[t |-> 0, kg |-> 7]>> }

\* An event row is inserted and, as a side effect, its pending job is created.
EnqueueEvent(samples) ==
  /\ Len(weight_event_jobs) < MaxJobs
  /\ weight_events' = Append(weight_events, EventRow("devA", samples))
  /\ weight_event_jobs' = Append(weight_event_jobs, NewJob(Len(weight_events) + 1))
  /\ UNCHANGED <<weight_event_results, scales, workerVars, ingestVars, env, deviceVars, callVars>>

(***************************************************************************)
(* Worker handler (process_weight_event_worker)                            *)
(***************************************************************************)
\* ?batch=<n>; 25 when the parameter is absent.
BatchSizes == {1, 25}

\* Ids of the pending jobs, oldest first (the table is in created_at order).
RECURSIVE PendingFrom(_, _)
PendingFrom(tbl, i) ==
  IF i > Len(tbl) THEN <<>>
  ELSE IF tbl[i].status = "pending" THEN <<i>> \o PendingFrom(tbl, i + 1)
  ELSE PendingFrom(tbl, i + 1)

\* .eq("status","pending").order("created_at").limit(BATCH_SIZE)
SelectPending(tbl, batch) ==
  LET p == PendingFrom(tbl, 1) IN SubSeq(p, 1, Min(batch, Len(p)))

SeqToSet(s) == { s[i] : i \in DOMAIN s }

\* .update({status:"processing", picked_at: now, attempts: undefined}).in("id", jobIds)
\* The update is keyed on the ids alone; a key whose value is undefined is
\* dropped from the JSON body, so attempts is not written.
MarkProcessing(tbl, ids, w) ==
  [ i \in DOMAIN tbl |->
      IF i \in ids
      THEN [tbl[i] EXCEPT !.status = "processing", !.picked_at = TRUE,
                          !.picks = @ \cup {w}]
      ELSE tbl[i] ]

\* .update({status:"done", done_at: now, error}).eq("id", job.id)
MarkDone(tbl, id, error) ==
  [tbl EXCEPT ![id] = [@ EXCEPT !.status = "done", !.done_at = TRUE, !.error = error]]

\* What a job's try block throws: an Error instance (new Error("event not
\* found"), an exception of the detector or the refiner), or the error member
\* of a database reply (throw e1, throw e2, throw e3), which is a plain object
\* with a message property.  Nothing: the try block completes.
Nothing == [kind |-> "none", message |-> ""]
Exceptions == { [kind |-> "Error", message |-> "event not found"],
                [kind |-> "object", message |-> "insert refused"] }
Thrown == {Nothing} \cup Exceptions

\* String(err): "<name>: <message>" for an Error, "[object Object]" for a
\* plain object.
ErrString(err) ==
  IF err.kind = "Error" THEN "Error: " \o err.message ELSE "[object Object]"

\* .update({status:"failed", attempts: undefined, error: String(err)}).eq("id", job.id)
MarkFailed(tbl, id, err) ==
  [tbl EXCEPT ![id] = [@ EXCEPT !.status = "failed", !.error = ErrString(err)]]

\* Secret checks and step 1: pick pending jobs.
WStart(w, hdr, batch, dbErr) ==
  /\ wpc[w] = "idle"
  /\ UNCHANGED <<serverVars, widx, ingestVars, env, deviceVars, callVars>>
  /\ IF env.FUNCTION_SECRET_PROCESSOR = ""
     THEN /\ wresp' = [wresp EXCEPT ![w] = [status |-> 500, picked |-> 0]]
          /\ UNCHANGED <<wpc, wjobs>>
     ELSE IF hdr # env.FUNCTION_SECRET_PROCESSOR
     THEN /\ wresp' = [wresp EXCEPT ![w] = [status |-> 401, picked |-> 0]]
          /\ UNCHANGED <<wpc, wjobs>>
     ELSE IF dbErr
     THEN /\ wresp' = [wresp EXCEPT ![w] = [status |-> 500, picked |-> 0]]
          /\ UNCHANGED <<wpc, wjobs>>
     ELSE LET jobs == SelectPending(weight_event_jobs, batch) IN
          IF jobs = <<>>
          THEN /\ wresp' = [wresp EXCEPT ![w] = [status |-> 200, picked |-> 0]]
               /\ UNCHANGED <<wpc, wjobs>>
          ELSE /\ wjobs' = [wjobs EXCEPT ![w] = jobs]
               /\ wpc' = [wpc EXCEPT ![w] = "mark"]
               /\ wresp' = [wresp EXCEPT ![w] = NoResp]

\* Step 2: mark as processing.
WMark(w) ==
  /\ wpc[w] = "mark"
  /\ weight_event_jobs' = MarkProcessing(weight_event_jobs, SeqToSet(wjobs[w]), w)
  /\ wpc' = [wpc EXCEPT ![w] = "job"]
  /\ widx' = [widx EXCEPT ![w] = 1]
  /\ UNCHANGED <<weight_events, weight_event_results, scales, wjobs, wresp,
                 ingestVars, env, deviceVars, callVars>>

\* End of one iteration of the for loop: next job, or the 200 response.
WAdvance(w) ==
  IF widx[w] < Len(wjobs[w])
  THEN /\ widx' = [widx EXCEPT ![w] = @ + 1]
       /\ wpc' = [wpc EXCEPT ![w] = "job"]
       /\ UNCHANGED <<wjobs, wresp>>
  ELSE /\ widx' = [widx EXCEPT ![w] = 0]
       /\ wpc' = [wpc EXCEPT ![w] = "idle"]
       /\ wresp' = [wresp EXCEPT ![w] = [status |-> 200, picked |-> Len(wjobs[w])]]
       /\ wjobs' = [wjobs EXCEPT ![w] = <<>>]

\* samples = event.samples ?? []; !Array.isArray(samples) || samples.length === 0
\* (the samples column of a stored event holds an array)
NoSamples_never(samples) == FALSE
NoSamples(samples) == Len(samples) = 0

\* Step 3, first half: load the event; no samples -> done with a note;
\* otherwise detect, read the recent history, refine and insert the Result row.
\* `thrown` is what is thrown anywhere up to and including the insert.
WProcess(w, thrown) ==
  /\ wpc[w] = "job"
  /\ LET job == wjobs[w][widx[w]]
         event == weight_events[weight_event_jobs[job].event_id]
     IN IF thrown # Nothing
        THEN /\ weight_event_jobs' = MarkFailed(weight_event_jobs, job, thrown)
             /\ UNCHANGED weight_event_results
             /\ WAdvance(w)
        ELSE IF NoSamples(event.samples)
        THEN /\ weight_event_jobs' = MarkDone(weight_event_jobs, job, "no samples")
             /\ UNCHANGED weight_event_results
             /\ WAdvance(w)
        ELSE /\ weight_event_results' = Append(weight_event_results,
                   [event_id |-> weight_event_jobs[job].event_id, job |-> job, by |-> w])
             /\ wpc' = [wpc EXCEPT ![w] = "finish"]
             /\ UNCHANGED <<weight_event_jobs, wjobs, widx, wresp>>
  /\ UNCHANGED <<weight_events, scales, ingestVars, env, deviceVars, callVars>>

\* Step 3, second half: the Result row is in; mark the job done.
WFinish(w) ==
  /\ wpc[w] = "finish"
  /\ weight_event_jobs' = MarkDone(weight_event_jobs, wjobs[w][widx[w]], "null")
  /\ WAdvance(w)
  /\ UNCHANGED <<weight_events, weight_event_results, scales, ingestVars, env, deviceVars, callVars>>

WorkerInit ==
  /\ ServerInit
  /\ DeviceInit
  /\ env \in { e \in EnvConfigs : e.SB_URL = "url" /\ e.SB_SERVICE_ROLE_KEY = "key"
                                  /\ e.FUNCTION_SECRET = "s1" /\ e.DEFAULT_HOUSEHOLD_ID = "h1" }
  /\ wpc = [w \in Workers |-> "idle"]
  /\ wjobs = [w \in Workers |-> <<>>]
  /\ widx = [w \in Workers |-> 0]
  /\ wresp = [w \in Workers |-> NoResp]
  /\ iresp = NoResp
  /\ rresp = NoResp
  /\ call = NoCall

WorkerNext ==
  \/ \E s \in WorkerEventSamples : EnqueueEvent(s)
  \/ \E w \in Workers, hdr \in HeaderSecrets, batch \in BatchSizes, dbErr \in BOOLEAN :
        WStart(w, hdr, batch, dbErr)
  \/ \E w \in Workers : WMark(w)
  \/ \E w \in Workers, thrown \in Thrown : WProcess(w, thrown)
  \/ \E w \in Workers : WFinish(w)

SpecWorker == WorkerInit /\ [][WorkerNext]_vars

(***************************************************************************)
(* Ingest endpoint (ingest-weight/index.ts)                                *)
(***************************************************************************)
\* JSON values of a sample's fields, by what Number() makes of them.
JNum(v) == [k |-> "num", v |-> v]       \* a JSON number
JNumStr(v) == [k |-> "numstr", v |-> v] \* a string holding a number, "7"
JBadStr == [k |-> "badstr", v |-> 0]    \* any other string, "abc"
JNull == [k |-> "null", v |-> 0]        \* null
JMissing == [k |-> "missing", v |-> 0]  \* the key is absent (undefined)

\* A JavaScript number: finite with value v, or NaN.
NaN == [fin |-> FALSE, v |-> 0]
Fin(v) == [fin |-> TRUE, v |-> v]

\* Number(x)
ToNumber(j) ==
  CASE j.k = "num" -> Fin(j.v)
    [] j.k = "numstr" -> Fin(j.v)
    [] j.k = "null" -> Fin(0)
    [] OTHER -> NaN

\* typeof s?.kg === "number" ? s.kg : Number(s?.kg)
KgNumber(j) == IF j.k = "num" THEN Fin(j.v) ELSE ToNumber(j)

\* The samples an ingest request may carry.
SampleValues ==
  { [t |-> JNum(0), kg |-> JNum(2)],
    [t |-> JNum(5), kg |-> JNum(7)],
    [t |-> JNull, kg |-> JNumStr(7)],
    [t |-> JNum(-1), kg |-> JNum(2)],
    [t |-> JNum(5), kg |-> JBadStr],
    [t |-> JMissing, kg |-> JNum(2)] }

SampleArrays == UNION { [1..n -> SampleValues] : n \in 0..MaxSamples }

\* Request bodies: not JSON / not an object, or an object whose samples member
\* is not an array, or an object with a samples array.
IngestBodies ==
  { [kind |-> "invalid", scale_id |-> "", samples |-> <<>>] }
  \cup { [kind |-> "object", scale_id |-> d, samples |-> a] :
           d \in {"devA"}, a \in SampleArrays }
  \cup { [kind |-> "object", scale_id |-> d, samples |-> <<[t |-> JNum(0), kg |-> JNum(2)]>>] :
           d \in {"", "devB"} }
  \cup { [kind |-> "object", scale_id |-> "devB",
          samples |-> <<[t |-> JNum(5), kg |-> JNum(7)], [t |-> JNum(0), kg |-> JNum(2)]>>],
         [kind |-> "samples-not-array", scale_id |-> "devA", samples |-> <<>>] }

IngestRequests ==
  { [method |-> "POST", hdr |-> "s1", body |-> b] : b \in IngestBodies }
  \cup { [method |-> m, hdr |-> h, body |-> [kind |-> "object", scale_id |-> "devA",
                                             samples |-> <<[t |-> JNum(0), kg |-> JNum(2)]>>]] :
           m \in {"POST", "OPTIONS"}, h \in {"", "bad", "s2"} }

\* The for loop over samples: the parsed array, or the 400 message of the
\* first sample that is refused.
RECURSIVE ParseSamples(_, _, _)
ParseSamples(samples, i, parsed) ==
  IF i > Len(samples) THEN [ok |-> TRUE, parsed |-> parsed]
  ELSE LET t == ToNumber(samples[i].t)
           kg == KgNumber(samples[i].kg)
       IN IF ~t.fin \/ t.v < 0
          THEN [ok |-> FALSE, parsed |-> <<>>]
          ELSE IF ~kg.fin
          THEN [ok |-> FALSE, parsed |-> <<>>]
          ELSE ParseSamples(samples, i + 1, Append(parsed, [t |-> t.v, kg |-> kg.v]))

Err(status) == [status |-> status, sample_count |-> 0, peak_kg |-> "null"]

ScaleRows(device_id) == { r \in scales : r.device_id = device_id }

\* .upsert({device_id, household_id, display_name}, {onConflict: "device_id"})
UpsertScale_keep(tbl, device_id, household_id, display_name) == tbl
UpsertScale(tbl, device_id, household_id, display_name) ==
  { r \in tbl : r.device_id # device_id }
  \cup { [device_id |-> device_id, household_id |-> household_id,
          display_name |-> display_name] }

\* Outcomes of the database calls of one request.
DbOutcomes == {"ok", "lookup-error", "upsert-error", "insert-error"}

\* if (insErr) return err(..., 500); return ok({ok: true, sample_count, peak_kg})
InsertResponse_unchecked(db, parsed) ==
  [status |-> 200, sample_count |-> Len(parsed), peak_kg |-> PeakKg(parsed)]
InsertResponse(db, parsed) ==
  IF db = "insert-error" THEN Err(500)
  ELSE [status |-> 200, sample_count |-> Len(parsed), peak_kg |-> PeakKg(parsed)]

\* The database part of the handler, for a validated request.  The job row is
\* created by the database together with the event row (the insert's side
\* effect), so both appear in the same step.
IngestStore(scale_id, parsed, db) ==
  LET found == ScaleRows(scale_id) # {} /\ db # "lookup-error" IN
  IF ~found /\ env.DEFAULT_HOUSEHOLD_ID = ""
  THEN /\ iresp' = Err(404)
       /\ UNCHANGED serverVars
  ELSE IF ~found /\ db = "upsert-error"
  THEN /\ iresp' = Err(500)
       /\ UNCHANGED serverVars
  ELSE /\ scales' = IF found THEN scales
                    ELSE UpsertScale(scales, scale_id, env.DEFAULT_HOUSEHOLD_ID, scale_id)
       /\ iresp' = InsertResponse(db, parsed)
       /\ IF db = "insert-error"
          THEN UNCHANGED <<weight_events, weight_event_jobs, weight_event_results>>
          ELSE /\ Len(weight_events) < MaxEvents
               /\ weight_events' = Append(weight_events, EventRow(scale_id, parsed))
               /\ weight_event_jobs' =
                     Append(weight_event_jobs, NewJob(Len(weight_events) + 1))
               /\ UNCHANGED weight_event_results

\* !FUNCTION_SECRET || headerSecret !== FUNCTION_SECRET
Unauthorized_missingPasses(hdr, secret) == secret = "" \/ (hdr # "" /\ hdr # secret)
Unauthorized(hdr, secret) == secret = "" \/ hdr # secret

\* One request to the ingest endpoint, from the first line of the handler to
\* its response.
Ingest(req) ==
  /\ UNCHANGED <<workerVars, rresp, env, deviceVars, callVars>>
  /\ IF req.method = "OPTIONS"
     THEN iresp' = [status |-> 200, sample_count |-> 0, peak_kg |-> "null"]
          /\ UNCHANGED serverVars
     ELSE IF env.SB_URL = "" \/ env.SB_SERVICE_ROLE_KEY = ""
     THEN iresp' = Err(500) /\ UNCHANGED serverVars
     ELSE IF Unauthorized(req.hdr, env.FUNCTION_SECRET)
     THEN iresp' = Err(401) /\ UNCHANGED serverVars
     ELSE IF req.body.kind = "invalid"
     THEN iresp' = Err(400) /\ UNCHANGED serverVars
     ELSE IF req.body.scale_id = ""
     THEN iresp' = Err(400) /\ UNCHANGED serverVars
     ELSE IF req.body.kind = "samples-not-array" \/ Len(req.body.samples) = 0
     THEN iresp' = Err(400) /\ UNCHANGED serverVars
     ELSE LET p == ParseSamples(req.body.samples, 1, <<>>) IN
          IF ~p.ok
          THEN iresp' = Err(400) /\ UNCHANGED serverVars
          ELSE \E db \in DbOutcomes : IngestStore(req.body.scale_id, p.parsed, db)

IngestInit ==
  /\ ServerInit
  /\ DeviceInit
  /\ env \in { e \in EnvConfigs : e.FUNCTION_SECRET_PROCESSOR = "s2"
                 /\ (e = FullEnv \/ Cardinality({ k \in DOMAIN e : e[k] = "" }) = 1) }
  /\ wpc = [w \in Workers |-> "idle"]
  /\ wjobs = [w \in Workers |-> <<>>]
  /\ widx = [w \in Workers |-> 0]
  /\ wresp = [w \in Workers |-> NoResp]
  /\ iresp = NoResp
  /\ rresp = NoResp
  /\ call = NoCall

IngestNext == \E req \in IngestRequests : Ingest(req)

SpecIngest == IngestInit /\ [][IngestNext]_vars

(***************************************************************************)
(* Device-registration endpoint (register-device)                          *)
(***************************************************************************)
\* ok(body, status) / err(message, status); scale is the registered device_id
\* of a 200, "" otherwise.
RegResp(status, scale) == [status |-> status, scale |-> scale]

RegisterBodies ==
  { [kind |-> "invalid", device_id |-> "", household_id |-> ""] }
  \cup { [kind |-> "object", device_id |-> d, household_id |-> h] :
           d \in {"", "devA"}, h \in {"", "h2"} }

RegisterRequests ==
  { [method |-> m, hdr |-> h, body |-> b] :
      m \in {"POST", "OPTIONS"}, h \in HeaderSecrets, b \in RegisterBodies }

\* Outcomes of the upsert raced against the 7 s timer.
UpsertOutcomes == {"ok", "error", "timeout"}

\* One request to the register-device endpoint.  The secrets are read once at
\* module load; env does not change during a run.
Register(req, db) ==
  /\ UNCHANGED <<weight_events, weight_event_jobs, weight_event_results,
                 workerVars, iresp, env, deviceVars, callVars>>
  /\ IF req.method = "OPTIONS"
     THEN rresp' = RegResp(200, "") /\ UNCHANGED scales
     ELSE IF env.SB_URL = "" \/ env.SB_SERVICE_ROLE_KEY = ""
     THEN rresp' = RegResp(500, "") /\ UNCHANGED scales
     ELSE IF env.FUNCTION_SECRET = ""
     THEN rresp' = RegResp(500, "") /\ UNCHANGED scales
     ELSE IF req.hdr # env.FUNCTION_SECRET
     THEN rresp' = RegResp(401, "") /\ UNCHANGED scales
     ELSE IF req.body.kind = "invalid"
     THEN rresp' = RegResp(400, "") /\ UNCHANGED scales
     ELSE IF req.body.device_id = ""
     THEN rresp' = RegResp(400, "") /\ UNCHANGED scales
     ELSE IF req.body.household_id = "" /\ env.DEFAULT_HOUSEHOLD_ID = ""
     THEN rresp' = RegResp(400, "") /\ UNCHANGED scales
     ELSE LET household_id == IF req.body.household_id = ""
                              THEN env.DEFAULT_HOUSEHOLD_ID ELSE req.body.household_id
          IN CASE db = "timeout" -> rresp' = RegResp(504, "") /\ UNCHANGED scales
               [] db = "error" -> rresp' = RegResp(500, "") /\ UNCHANGED scales
               [] OTHER ->
                    /\ scales' = UpsertScale(scales, req.body.device_id, household_id,
                                             req.body.device_id)
                    /\ rresp' = RegResp(200, req.body.device_id)

RegisterNext == \E req \in RegisterRequests, db \in UpsertOutcomes : Register(req, db)

(***************************************************************************)
(* The three endpoints together, under every configuration of the secrets. *)
(* The worker builds its client from the platform's SUPABASE_URL and       *)
(* SUPABASE_SERVICE_ROLE_KEY, which are always present; the secrets of env *)
(* it reads are FUNCTION_SECRET_PROCESSOR only.                            *)
(***************************************************************************)
ServerInit3 ==
  /\ ServerInit
  /\ DeviceInit
  /\ env \in EnvConfigs
  /\ wpc = [w \in Workers |-> "idle"]
  /\ wjobs = [w \in Workers |-> <<>>]
  /\ widx = [w \in Workers |-> 0]
  /\ wresp = [w \in Workers |-> NoResp]
  /\ iresp = NoResp
  /\ rresp = NoResp
  /\ call = NoCall

\* Events enter through the ingest endpoint only; one worker invocation at a
\* time; ingest requests with a right, wrong or missing header, with a body
\* that is accepted, has no samples, or is refused.
ServerIngestRequests ==
  { r \in IngestRequests :
      /\ r.body.kind = "object"
      /\ r.body.scale_id = "devA"
      /\ r.body.samples \in { <<>>, <<[t |-> JNum(0), kg |-> JNum(2)]>>,
                              <<[t |-> JNum(5), kg |-> JBadStr]>> } }

ServerNext ==
  \/ \E req \in ServerIngestRequests : Ingest(req)
  \/ RegisterNext
  \/ \E hdr \in HeaderSecrets, batch \in BatchSizes, dbErr \in BOOLEAN :
        WStart(1, hdr, batch, dbErr)
  \/ WMark(1)
  \/ \E thrown \in Thrown : WProcess(1, thrown)
  \/ WFinish(1)

SpecServer == ServerInit3 /\ [][ServerNext]_vars

\* C10: monotone time: every event accepted by the ingest endpoint has
\* non-decreasing sample timestamps, samples[i].t <= samples[i+1].t for all i.
C10_MonotoneTime ==
  \A e \in DOMAIN weight_events :
    \A i \in 1..(Len(weight_events[e].samples) - 1) :
      weight_events[e].samples[i].t <= weight_events[e].samples[i + 1].t

(***************************************************************************)
(* Claims about the job queue (SpecWorker)                                 *)
(***************************************************************************)
JobIds == DOMAIN weight_event_jobs

StatusRank(s) ==
  CASE s = "pending" -> 0
    [] s = "processing" -> 1
    [] OTHER -> 2

ResultsOf(e) == { i \in DOMAIN weight_event_results : weight_event_results[i].event_id = e }

\* C1: job claim is atomic: no job is picked (selected and flipped to
\* processing) by more than one worker invocation.
C1_ClaimIsAtomic ==
  \A j \in JobIds : Cardinality(weight_event_jobs[j].picks) <= 1

\* C2: job status only follows pending -> processing -> done|failed: a done or
\* failed job never changes status again and no job moves back to an earlier
\* status.
C2_NoStateReversion ==
  [][\A j \in JobIds :
        /\ StatusRank(weight_event_jobs'[j].status) >= StatusRank(weight_event_jobs[j].status)
        /\ weight_event_jobs[j].status \in {"done", "failed"}
             => weight_event_jobs'[j].status = weight_event_jobs[j].status]_vars

\* C3: the detector -> refiner -> result-insert pipeline runs once per
\* enqueued job: one job (event) never yields two Result rows.
C3_OneResultPerJob ==
  \A e \in DOMAIN weight_events : Cardinality(ResultsOf(e)) <= 1

\* The pending jobs of the table, oldest first, are ids: no pending job is
\* left out before the last of them.
OldestPending(tbl, ids) ==
  /\ \A k \in DOMAIN ids : ids[k] \in DOMAIN tbl /\ tbl[ids[k]].status = "pending"
  /\ \A k \in DOMAIN ids : k > 1 => ids[k - 1] < ids[k]
  /\ \A j \in DOMAIN tbl :
        (tbl[j].status = "pending" /\ ids # <<>> /\ j < ids[Len(ids)])
          => \E k \in DOMAIN ids : ids[k] = j

PendingCount(tbl) == Cardinality({ j \in DOMAIN tbl : tbl[j].status = "pending" })

\* C30: a worker invocation selects the min(batch, number of pending jobs)
\* oldest pending jobs; its update flips each of them from pending to
\* processing with picked_at stamped, before any of them is processed; it
\* processes them one after the other in that order; and it answers with
\* picked = the number of jobs it claimed.
C30_ClaimsOldestPending ==
  [][\A w \in Workers :
       /\ (wpc[w] = "idle" /\ wpc'[w] = "mark") =>
            /\ OldestPending(weight_event_jobs, wjobs'[w])
            /\ \E batch \in BatchSizes :
                  Len(wjobs'[w]) = Min(batch, PendingCount(weight_event_jobs))
       /\ (wpc[w] = "mark" /\ wpc'[w] = "job") =>
            /\ widx'[w] = 1
            /\ \A k \in DOMAIN wjobs[w] :
                  /\ weight_event_jobs[wjobs[w][k]].status = "pending"
                  /\ weight_event_jobs'[wjobs[w][k]].status = "processing"
                  /\ weight_event_jobs'[wjobs[w][k]].picked_at
       /\ (wpc[w] \in {"job", "finish"} /\ <<wpc'[w], widx'[w]>> # <<wpc[w], widx[w]>>) =>
            /\ weight_event_jobs[wjobs[w][widx[w]]].picked_at
            /\ \A j \in JobIds : j # wjobs[w][widx[w]]
                  => weight_event_jobs'[j] = weight_event_jobs[j]
       /\ (wpc[w] \in {"job", "finish"} /\ wpc'[w] = "job" /\ widx'[w] # widx[w]) =>
            widx'[w] = widx[w] + 1
       /\ (wpc[w] = "finish" /\ wpc'[w] # "finish") =>
            weight_event_jobs'[wjobs[w][widx[w]]].status = "done"
       /\ (wpc[w] \in {"job", "finish"} /\ wpc'[w] = "idle") =>
            /\ widx[w] = Len(wjobs[w])
            /\ wresp'[w] = [status |-> 200, picked |-> Len(wjobs[w])]]_vars

\* C31: a job's attempts counter equals the number of times the job has
\* been claimed (flipped to processing) by a worker invocation.
C31_AttemptsCountClaims ==
  \A j \in JobIds :
    weight_event_jobs[j].attempts = Cardinality(weight_event_jobs[j].picks)

\* C38: when a worker invocation that claimed jobs returns 200, every job it
\* claimed is done or failed, none is left processing, and every one of them
\* that is done with error = null has a Result row inserted by that
\* invocation.
C38_ClaimedJobsTerminal ==
  [][\A w \in Workers :
       (wpc[w] \in {"job", "finish"} /\ wpc'[w] = "idle" /\ wresp'[w].status = 200) =>
         \A k \in DOMAIN wjobs[w] :
           LET job == weight_event_jobs'[wjobs[w][k]] IN
           /\ job.status \in {"done", "failed"}
           /\ (job.status = "done" /\ job.error = "null") =>
                 \E i \in DOMAIN weight_event_results' :
                   /\ weight_event_results'[i].job = wjobs[w][k]
                   /\ weight_event_results'[i].by = w]_vars

(***************************************************************************)
(* Device: time, the ADC and the capture state machine of loop()           *)
(***************************************************************************)
MaxClock == 18000    \* time stops advancing once clock reaches this value
MaxReads == 3        \* samples the ADC delivers during one ACTIVE session

TickSteps == {1000, ACTIVE_MAX_MS}   \* time between two steps of the program
KgInputs == {0, 400}                 \* readings: empty platform, 40 kg load
UploadMs == {0, 1000}                \* time spent inside postEventToSupabase

otherVars == <<serverVars, workerVars, ingestVars, env, callVars>>
calVars == <<currentCalFactor, nvs, scaleOffset, calHasP1, calHasP2, calP1, calP2>>
idleVars == <<armOk, armBelowStartMs, prevIdleKgEMA, idleKgEMA, emaInit, nextIdleLogMs>>
sessionVars == <<g_state, g_buf, session_t0, below_start_ms>>
histVars == <<termClock, bandSince, stableSeen>>

\* scale.is_ready() can turn true as time passes; it stays true until a read.
CanDeliver == g_state = "IDLE" \/ Len(g_buf) < MaxReads
ReadyAfterWait == {adcReady} \cup (IF CanDeliver THEN {TRUE} ELSE {})

InCooldown == (g_pauseUntilMs - Millis) > 0
Paused == g_calInProgress \/ InCooldown

\* loop() runs again and again, far more often than once per TickSteps: an IDLE
\* poll that is due and an ACTIVE sample that is ready are taken before time
\* advances.
LoopDue ==
  /\ ~Paused
  /\ \/ g_state = "IDLE" /\ (Millis - nextIdleLogMs) >= 0
     \/ g_state = "ACTIVE" /\ adcReady

Tick(d) ==
  /\ clock < MaxClock
  /\ ~LoopDue
  /\ clock' = clock + d
  /\ adcReady' \in ReadyAfterWait
  /\ ev' = [EvBase EXCEPT !.op = "tick"]
  /\ UNCHANGED <<otherVars, sessionVars, idleVars, calVars, histVars,
                 g_pauseUntilMs, g_calInProgress, cmdLeft>>

EmaStep(e, kg) == (9 * e + kg) \div 10
Deadband(x) == IF Abs(x) * 1000 < 5 * UnitsPerKg THEN 0 ELSE x

\* loop() while calibration or a cooldown pauses capture: heartbeat only.
LoopPaused ==
  /\ Paused
  /\ ev' = [EvBase EXCEPT !.op = "loop", !.out = "paused"]
  /\ UNCHANGED <<otherVars, clock, adcReady, sessionVars, idleVars, calVars, histVars,
                 g_pauseUntilMs, g_calInProgress, cmdLeft>>

\* the value armOk takes on the IDLE -> ACTIVE transition ("consume the arm gate")
ArmAfterTrigger_kept(a) == a
ArmAfterTrigger(a) == FALSE

\* rise >= RISE_MIN_KG, the rising-edge condition of the trigger
RisingEdge_any(rise) == TRUE
RisingEdge(rise) == rise >= RISE_MIN_KG

\* loop() in IDLE; kg is the reading the ADC holds if it is ready.
LoopIdle(kg) ==
  /\ ~Paused
  /\ g_state = "IDLE"
  /\ IF (Millis - nextIdleLogMs) >= 0
     THEN LET next1 == nextIdleLogMs + IDLE_POLL_MS
              kg_now == IF adcReady THEN kg ELSE 0
              ema1 == IF ~emaInit THEN kg_now ELSE EmaStep(idleKgEMA, kg_now)
              inBand == Abs(ema1) <= ARM_BAND_KG
              abs1 == IF inBand
                      THEN (IF armBelowStartMs = 0 THEN Millis ELSE armBelowStartMs)
                      ELSE 0
              arm1 == IF inBand /\ (Millis - abs1) >= ARM_STABLE_MS THEN TRUE ELSE armOk
              rise == ema1 - prevIdleKgEMA
              ema2 == Deadband(ema1)
              next2 == IF (Millis - next1) > IDLE_POLL_MS * 5
                       THEN Millis + IDLE_POLL_MS ELSE next1
              fire == arm1 /\ RisingEdge(rise) /\ Abs(ema2) >= TRIGGER_KG
              since1 == IF inBand THEN (IF bandSince = -1 THEN clock ELSE bandSince) ELSE -1
          IN  /\ adcReady' = FALSE
              /\ emaInit' = TRUE
              /\ idleKgEMA' = ema2
              /\ prevIdleKgEMA' = ema1
              /\ nextIdleLogMs' = next2
              /\ bandSince' = since1
              /\ stableSeen' = (stableSeen \/ (inBand /\ clock - since1 >= ARM_STABLE_MS))
              /\ IF fire
                 THEN /\ g_buf' = <<>>
                      /\ session_t0' = Millis
                      /\ below_start_ms' = 0
                      /\ g_state' = "ACTIVE"
                      /\ armOk' = ArmAfterTrigger(arm1)
                      /\ armBelowStartMs' = 0
                      /\ ev' = [EvBase EXCEPT !.op = "loop", !.out = "start"]
                 ELSE /\ armOk' = arm1
                      /\ armBelowStartMs' = abs1
                      /\ ev' = [EvBase EXCEPT !.op = "loop", !.out = "poll"]
                      /\ UNCHANGED sessionVars
     ELSE /\ ev' = [EvBase EXCEPT !.op = "loop", !.out = "wait"]
          /\ UNCHANGED <<adcReady, sessionVars, idleVars, bandSince, stableSeen>>
  /\ UNCHANGED <<otherVars, clock, calVars, termClock, g_pauseUntilMs, g_calInProgress,
                 cmdLeft>>

\* g_pauseUntilMs after a session termination at millis() = now
CooldownUntil_none(now) == now
CooldownUntil(now) == now + POST_ACTIVE_COOLDOWN_MS

\* postEventToSupabase: whether it returned true and how long it blocked
Uploads == [ok : BOOLEAN, d : UploadMs]
NoUpload == [ok |-> FALSE, d |-> 0]

\* if (g_buf.size() < MAX_SAMPLES) g_buf.push_back({t_rel, kg})
HasRoom_always(n) == TRUE
HasRoom(n) == n < MAX_SAMPLES

\* below_start_ms after a sample: started by the first sample under RELEASE_KG,
\* kept by the next ones, reset to 0 by a sample at or above it
ReleaseTimer_kept(below, start, now) == IF start # 0 THEN start ELSE IF below THEN now ELSE 0
ReleaseTimer(below, start, now) == IF below THEN (IF start = 0 THEN now ELSE start) ELSE 0

\* loop() in ACTIVE.  kg is the reading the ADC holds if it is ready; up1 and up2
\* are the uploads of the hysteresis and of the hard-cap termination.
LoopActive(kg) ==
  /\ ~Paused
  /\ g_state = "ACTIVE"
  /\ IF adcReady
     THEN LET kgd == Deadband(kg)
              t_rel == Millis - session_t0
              buf1 == IF HasRoom(Len(g_buf))
                      THEN Append(g_buf, [t |-> t_rel, kg |-> kgd]) ELSE g_buf
              below == Abs(kgd) < RELEASE_KG
              hyst == below /\ below_start_ms # 0
                            /\ (Millis - below_start_ms) >= BELOW_HOLD_MS
              bs1 == ReleaseTimer(below, below_start_ms, Millis)
          IN  \E up1 \in IF hyst THEN Uploads ELSE {NoUpload} :
                LET clock1 == clock + up1.d
                    cap == clock1 - session_t0 >= ACTIVE_MAX_MS
                IN  \E up2 \in IF cap THEN Uploads ELSE {NoUpload} :
                      LET clock2 == clock1 + up2.d
                      IN  /\ (clock2 # clock => clock < MaxClock)
                          /\ g_buf' = buf1
                          /\ below_start_ms' = bs1
                          /\ clock' = clock2
                          /\ adcReady' \in (IF clock2 # clock THEN BOOLEAN ELSE {FALSE})
                          /\ g_state' = IF hyst \/ cap THEN "IDLE" ELSE "ACTIVE"
                          /\ g_pauseUntilMs' = IF cap THEN CooldownUntil(clock2)
                                               ELSE IF hyst THEN CooldownUntil(clock1)
                                               ELSE g_pauseUntilMs
                          /\ ev' = [EvBase EXCEPT !.op = "loop",
                                      !.out = IF hyst \/ cap THEN "end" ELSE "sample",
                                      !.term = IF hyst /\ cap THEN "both"
                                               ELSE IF hyst THEN "hysteresis"
                                               ELSE IF cap THEN "timeout" ELSE "none",
                                      !.posts = (IF hyst THEN 1 ELSE 0) + (IF cap THEN 1 ELSE 0),
                                      !.ok = IF cap THEN up2.ok ELSE up1.ok]
                          /\ IF hyst \/ cap
                             THEN termClock' = clock2 /\ bandSince' = -1 /\ stableSeen' = FALSE
                             ELSE UNCHANGED histVars
                          /\ UNCHANGED session_t0
     ELSE /\ ev' = [EvBase EXCEPT !.op = "loop", !.out = "notready"]
          /\ UNCHANGED <<clock, adcReady, sessionVars, g_pauseUntilMs, histVars>>
  /\ UNCHANGED <<otherVars, idleVars, calVars, g_calInProgress, cmdLeft>>

(***************************************************************************)
(* Device: serial calibration commands.  A handler blocks loop(), so each  *)
(* is one step; out is how far the procedure got, zeroRaw and raw are the  *)
(* results of readStableRaw, d the time the handler took.                  *)
(***************************************************************************)
Masses == {0, 500, 1000}         \* grams typed after cal / cal1 / cal2; 0 is invalid
CalOutcomes == {"tare-fail", "zero-timeout", "plateau-timeout", "measured"}
ZeroRaws == {1000}               \* raw counts of the empty platform
LoadedRaws == {5000, 101000}     \* raw counts with the mass on the platform
CmdMs == {2000}                  \* duration of a handler that passed validation
CaptureMasses == {0, 500}        \* masses typed after `cal` in the capture specification
CalTickSteps == {3000}           \* time between commands in the calibration specification

NegligibleDelta_never(raw, zeroRaw) == FALSE
NegligibleDelta(raw, zeroRaw) == Abs(raw - zeroRaw) < MIN_DELTA_COUNTS

CalEv(op, mass, out, zeroRaw, raw) ==
  [EvBase EXCEPT !.op = op, !.mass = mass, !.out = out,
                 !.zeroRaw = IF out = "measured" THEN zeroRaw ELSE 0,
                 !.raw = IF out = "measured" THEN raw ELSE 0]

\* "Pause state machine during calibration" and the common epilogue
\* g_calInProgress = false; g_pauseUntilMs = millis() + 3000.
CalBlock_keeps(d) ==
  /\ clock < MaxClock
  /\ clock' = clock + d
  /\ g_state' = g_state
  /\ below_start_ms' = below_start_ms
  /\ g_buf' = g_buf
  /\ g_calInProgress' = FALSE
  /\ g_pauseUntilMs' = clock + d + CAL_COOLDOWN_MS
  /\ adcReady' = FALSE
CalBlock(d) ==
  /\ clock < MaxClock
  /\ clock' = clock + d
  /\ g_state' = "IDLE"
  /\ below_start_ms' = 0
  /\ g_buf' = <<>>
  /\ g_calInProgress' = FALSE
  /\ g_pauseUntilMs' = clock + d + CAL_COOLDOWN_MS
  /\ adcReady' = FALSE

cmdCalibrate(knownMassGrams, out, zeroRaw, raw, d) ==
  /\ IF knownMassGrams <= 0
     THEN /\ g_pauseUntilMs' = Millis + CAL_COOLDOWN_MS
          /\ ev' = CalEv("cal", knownMassGrams, "invalid-mass", 0, 0)
          /\ UNCHANGED <<clock, adcReady, sessionVars, g_calInProgress, calVars>>
     ELSE LET saved == out = "measured" /\ ~NegligibleDelta(raw, zeroRaw)
              newFactor == Factor(raw, knownMassGrams)
          IN  /\ CalBlock(d)
              /\ scaleOffset' = IF out = "tare-fail" THEN scaleOffset ELSE zeroRaw
              /\ currentCalFactor' = IF saved THEN newFactor ELSE currentCalFactor
              /\ nvs' = IF saved THEN [has |-> TRUE, cal |-> newFactor] ELSE nvs
              /\ ev' = CalEv("cal", knownMassGrams, out, zeroRaw, raw)
              /\ UNCHANGED <<session_t0, calHasP1, calHasP2, calP1, calP2>>
  /\ cmdLeft' = Max(0, cmdLeft - 1)
  /\ UNCHANGED <<otherVars, idleVars, histVars>>

cmdCal1(grams, out, zeroRaw, raw, d) ==
  /\ IF grams <= 0
     THEN /\ ev' = CalEv("cal1", grams, "invalid-mass", 0, 0)
          /\ UNCHANGED <<clock, adcReady, sessionVars, g_calInProgress, g_pauseUntilMs,
                         calVars>>
     ELSE /\ CalBlock(d)
          /\ scaleOffset' = IF out = "tare-fail" THEN scaleOffset ELSE zeroRaw
          /\ calP1' = IF out = "measured" THEN [mass |-> grams, raw |-> raw] ELSE calP1
          /\ calHasP1' = (calHasP1 \/ out = "measured")
          /\ ev' = CalEv("cal1", grams, out, zeroRaw, raw)
          /\ UNCHANGED <<session_t0, currentCalFactor, nvs, calHasP2, calP2>>
  /\ cmdLeft' = Max(0, cmdLeft - 1)
  /\ UNCHANGED <<otherVars, idleVars, histVars>>

cmdCal2(grams, out, zeroRaw, raw, d) ==
  /\ IF grams <= 0
     THEN /\ ev' = CalEv("cal2", grams, "invalid-mass", 0, 0)
          /\ UNCHANGED <<clock, adcReady, sessionVars, g_calInProgress, g_pauseUntilMs,
                         calVars>>
     ELSE /\ CalBlock(d)
          /\ scaleOffset' = IF out = "tare-fail" THEN scaleOffset ELSE zeroRaw
          /\ calP2' = IF out = "measured" THEN [mass |-> grams, raw |-> raw] ELSE calP2
          /\ calHasP2' = (calHasP2 \/ out = "measured")
          /\ ev' = CalEv("cal2", grams, out, zeroRaw, raw)
          /\ UNCHANGED <<session_t0, currentCalFactor, nvs, calHasP1, calP1>>
  /\ cmdLeft' = Max(0, cmdLeft - 1)
  /\ UNCHANGED <<otherVars, idleVars, histVars>>

\* if (!(calHasP1 && calHasP2)) return
HavePoints_either(p1, p2) == p1 \/ p2
HavePoints(p1, p2) == p1 /\ p2

cmdSolve2pt(d) ==
  /\ LET dm == calP2.mass - calP1.mass
         dr == calP2.raw - calP1.raw
     IN IF ~HavePoints(calHasP1, calHasP2)
        THEN /\ ev' = CalEv("solve", 0, "need-points", 0, 0)
             /\ UNCHANGED <<clock, adcReady, sessionVars, g_calInProgress, g_pauseUntilMs,
                            calVars>>
        ELSE IF Abs(dm) * 1000 < 1
        THEN /\ ev' = CalEv("solve", 0, "same-mass", 0, 0)
             /\ UNCHANGED <<clock, adcReady, sessionVars, g_calInProgress, g_pauseUntilMs,
                            calVars>>
        ELSE /\ CalBlock(d)
             /\ currentCalFactor' = Factor(dr, dm)
             /\ nvs' = [has |-> TRUE, cal |-> Factor(dr, dm)]
             /\ calHasP1' = FALSE
             /\ calHasP2' = FALSE
             /\ ev' = CalEv("solve", 0, "solved", 0, 0)
             /\ UNCHANGED <<session_t0, scaleOffset, calP1, calP2>>
  /\ cmdLeft' = Max(0, cmdLeft - 1)
  /\ UNCHANGED <<otherVars, idleVars, histVars>>

\* resetcal: the key is removed and the compile-time default is live again.
cmdResetCal ==
  /\ nvs' = NoKey
  /\ currentCalFactor' = CAL_FACTOR
  /\ ev' = [EvBase EXCEPT !.op = "resetcal"]
  /\ cmdLeft' = Max(0, cmdLeft - 1)
  /\ UNCHANGED <<clock, adcReady, sessionVars, g_calInProgress, g_pauseUntilMs,
                 scaleOffset, calHasP1, calHasP2, calP1, calP2>>
  /\ UNCHANGED <<otherVars, idleVars, histVars>>

\* float saved; if (loadCal(saved)) currentCalFactor = saved: the factor that
\* is live after setup(), given the NVS namespace
LoadedFactor_default(store) == CAL_FACTOR
LoadedFactor(store) == IF store.has THEN store.cal ELSE CAL_FACTOR

\* A restart: the globals take their initialisers again and setup() runs;
\* NVS is all that is kept.
Reboot ==
  /\ clock' = 0
  /\ g_state' = "IDLE"
  /\ g_buf' = <<>>
  /\ session_t0' = 0
  /\ below_start_ms' = 0
  /\ g_pauseUntilMs' = 0
  /\ g_calInProgress' = FALSE
  /\ armOk' = FALSE
  /\ armBelowStartMs' = 0
  /\ prevIdleKgEMA' = 0
  /\ idleKgEMA' = 0
  /\ emaInit' = FALSE
  /\ nextIdleLogMs' = 0
  /\ adcReady' = FALSE
  /\ currentCalFactor' = LoadedFactor(nvs)
  /\ scaleOffset' = 0
  /\ calHasP1' = FALSE
  /\ calHasP2' = FALSE
  /\ calP1' = NoPoint
  /\ calP2' = NoPoint
  /\ ev' = [EvBase EXCEPT !.op = "setup"]
  /\ termClock' = -1
  /\ bandSince' = -1
  /\ stableSeen' = FALSE
  /\ UNCHANGED <<nvs, cmdLeft, otherVars>>

(***************************************************************************)
(* Device specification                                                    *)
(***************************************************************************)
Init ==
  /\ ServerInit
  /\ wpc = [w \in Workers |-> "idle"]
  /\ wjobs = [w \in Workers |-> <<>>]
  /\ widx = [w \in Workers |-> 0]
  /\ wresp = [w \in Workers |-> NoResp]
  /\ iresp = NoResp
  /\ rresp = NoResp
  /\ call = NoCall
  /\ env = FullEnv
  /\ DeviceInit

\* a `cal <g>` line arrives on the serial console; the procedure fails at the tare
TypeCal ==
  /\ cmdLeft > 0
  /\ \E m \in CaptureMasses, z \in ZeroRaws, r \in LoadedRaws, d \in CmdMs :
       cmdCalibrate(m, "tare-fail", z, r, d)

\* Capture: the state machine under load, time, uploads, and a `cal` command
\* that is rejected or fails at the tare.
Next ==
  \/ \E d \in TickSteps : Tick(d)
  \/ LoopPaused
  \/ \E kg \in KgInputs : LoopIdle(kg)
  \/ \E kg \in KgInputs : LoopActive(kg)
  \/ TypeCal

Spec == Init /\ [][Next]_vars

\* Calibration: every command with every outcome, on an idle device.
\* how far a procedure got and what readStableRaw returned
CalRuns ==
  { <<out, z, IF out = "measured" THEN r ELSE 0>> :
      out \in CalOutcomes, z \in ZeroRaws, r \in LoadedRaws }

CalNext ==
  \/ \E d \in CalTickSteps : Tick(d)
  \/ LoopPaused
  \/ \E m \in Masses, run \in CalRuns, d \in CmdMs : cmdCalibrate(m, run[1], run[2], run[3], d)
  \/ \E m \in Masses, run \in CalRuns, d \in CmdMs : cmdCal1(m, run[1], run[2], run[3], d)
  \/ \E m \in Masses, run \in CalRuns, d \in CmdMs : cmdCal2(m, run[1], run[2], run[3], d)
  \/ \E d \in CmdMs : cmdSolve2pt(d)
  \/ cmdResetCal
  \/ Reboot

SpecCal == Init /\ [][CalNext]_vars

\* Arming: the idle gate, polled every 200 ms with a reading each time, under
\* a slowly growing load.  Readings of 5.5 kg let the EMA creep past the
\* trigger by less than RISE_MIN_KG per poll; one of 10 kg is a rising edge.
\* A run ends with the step to ACTIVE.
ArmKgInputs == {0, 55, 100}
ArmTickSteps == {200}

ArmNext ==
  \/ \E d \in ArmTickSteps : Tick(d)
  \/ \E kg \in ArmKgInputs : LoopIdle(kg)

SpecArm == Init /\ [][ArmNext]_vars

\* Filling the buffer: one session with the ADC at 80 samples per second, a
\* sample every 12 ms, under a steady load of 40 kg, from the step to ACTIVE
\* to the hard cap.  SessionStart is the state of Spec just after that step,
\* taken at 5 s.
FastSampleMs == 12               \* time between two samples of the ADC in ACTIVE
FillKg == 400                    \* the load read while the buffer fills
FillHeld == 5990                 \* samples already buffered when the specification starts

\* The device n samples into a session that began at 5000 ms with the load
\* steady: SessionAfter(0) is the state the trigger leaves, and each sample
\* of the session so far was read FastSampleMs after the one before.
SessionAfter(n) ==
  /\ clock = 5000 + n * FastSampleMs
  /\ g_state = "ACTIVE"
  /\ g_buf = [i \in 1..n |-> [t |-> i * FastSampleMs, kg |-> Deadband(FillKg)]]
  /\ session_t0 = 5000
  /\ below_start_ms = 0
  /\ g_pauseUntilMs = 0
  /\ g_calInProgress = FALSE
  /\ armOk = FALSE
  /\ armBelowStartMs = 0
  /\ prevIdleKgEMA = 40
  /\ idleKgEMA = 40
  /\ emaInit = TRUE
  /\ nextIdleLogMs = 4400
  /\ adcReady = FALSE
  /\ currentCalFactor = CAL_FACTOR
  /\ nvs = NoKey
  /\ scaleOffset = 0
  /\ calHasP1 = FALSE
  /\ calHasP2 = FALSE
  /\ calP1 = NoPoint
  /\ calP2 = NoPoint
  /\ ev = [EvBase EXCEPT !.op = "loop", !.out = IF n = 0 THEN "start" ELSE "sample"]
  /\ termClock = -1
  /\ bandSince = -1
  /\ stableSeen = TRUE
  /\ cmdLeft = MaxTyped

SessionStart == SessionAfter(0)

FillInit ==
  /\ ServerInit
  /\ wpc = [w \in Workers |-> "idle"]
  /\ wjobs = [w \in Workers |-> <<>>]
  /\ widx = [w \in Workers |-> 0]
  /\ wresp = [w \in Workers |-> NoResp]
  /\ iresp = NoResp
  /\ rresp = NoResp
  /\ call = NoCall
  /\ env = FullEnv
  /\ SessionAfter(FillHeld)

\* d ms pass in ACTIVE and the ADC has the next sample ready.
SampleReady(d) ==
  /\ g_state = "ACTIVE"
  /\ ~adcReady
  /\ clock' = clock + d
  /\ adcReady' = TRUE
  /\ ev' = [EvBase EXCEPT !.op = "tick"]
  /\ UNCHANGED <<otherVars, sessionVars, idleVars, calVars, histVars,
                 g_pauseUntilMs, g_calInProgress, cmdLeft>>

FillNext ==
  \/ SampleReady(FastSampleMs)
  \/ LoopActive(FillKg)

SpecFill == FillInit /\ [][FillNext]_vars

\* A session that starts after cal1 500 and cal2 1000 have each measured
\* their point: both points are held and not yet solved.  The state is the
\* one reached from Init by the two commands, the cooldown and the trigger.
CalibratedSessionStart ==
  /\ clock = 9000
  /\ g_state = "ACTIVE"
  /\ g_buf = <<>>
  /\ session_t0 = 9000
  /\ below_start_ms = 0
  /\ g_pauseUntilMs = 8000
  /\ g_calInProgress = FALSE
  /\ armOk = FALSE
  /\ armBelowStartMs = 0
  /\ prevIdleKgEMA = 40
  /\ idleKgEMA = 40
  /\ emaInit = TRUE
  /\ nextIdleLogMs = 8400
  /\ adcReady = FALSE
  /\ currentCalFactor = CAL_FACTOR
  /\ nvs = NoKey
  /\ scaleOffset = 1000
  /\ calHasP1 = TRUE
  /\ calHasP2 = TRUE
  /\ calP1 = [mass |-> 500, raw |-> 5000]
  /\ calP2 = [mass |-> 1000, raw |-> 101000]
  /\ ev = [EvBase EXCEPT !.op = "loop", !.out = "start"]
  /\ termClock = -1
  /\ bandSince = -1
  /\ stableSeen = TRUE
  /\ cmdLeft = MaxTyped

\* A session is under way, with or without calibration points held, and one
\* calibration command is typed at any moment of it.
AbandonInit ==
  /\ ServerInit
  /\ wpc = [w \in Workers |-> "idle"]
  /\ wjobs = [w \in Workers |-> <<>>]
  /\ widx = [w \in Workers |-> 0]
  /\ wresp = [w \in Workers |-> NoResp]
  /\ iresp = NoResp
  /\ rresp = NoResp
  /\ call = NoCall
  /\ env = FullEnv
  /\ (SessionStart \/ CalibratedSessionStart)

AbandonNext ==
  \/ \E d \in TickSteps : Tick(d)
  \/ LoopPaused
  \/ \E kg \in KgInputs : LoopIdle(kg)
  \/ \E kg \in KgInputs : LoopActive(kg)
  \/ cmdLeft > 0 /\ \E m \in Masses, run \in CalRuns, d \in CmdMs :
                      cmdCalibrate(m, run[1], run[2], run[3], d)
  \/ cmdLeft > 0 /\ \E m \in Masses, run \in CalRuns, d \in CmdMs :
                      cmdCal1(m, run[1], run[2], run[3], d)
  \/ cmdLeft > 0 /\ \E m \in Masses, run \in CalRuns, d \in CmdMs :
                      cmdCal2(m, run[1], run[2], run[3], d)
  \/ cmdLeft > 0 /\ \E d \in CmdMs : cmdSolve2pt(d)

SpecAbandon == AbandonInit /\ [][AbandonNext]_vars


(***************************************************************************)
(* Device properties                                                       *)
(***************************************************************************)
Started == g_state = "IDLE" /\ g_state' = "ACTIVE"
Terminated(e) == e.op = "loop" /\ e.term # "none"

\* C4: once a session has terminated, a step IDLE -> ACTIVE happens only if,
\* since that termination, the EMA stayed within ARM_BAND_KG for ARM_STABLE_MS,
\* and the poll that makes the step sees a rise of at least RISE_MIN_KG over the
\* previous poll's EMA and an EMA of magnitude at least TRIGGER_KG.
C4_EdgeTriggerAfterTermination ==
  [][ (termClock # -1 /\ Started) =>
        /\ stableSeen
        /\ prevIdleKgEMA' - prevIdleKgEMA >= RISE_MIN_KG
        /\ Abs(idleKgEMA') >= TRIGGER_KG ]_vars

\* a second session has just started after the first one terminated
C4_SecondSession ==
  termClock # -1 /\ g_state = "ACTIVE" /\ ev.out = "start" /\ stableSeen

\* C5: a loop iteration that finds the machine ACTIVE with
\* millis() - session_t0 >= ACTIVE_MAX_MS submits the event and returns to IDLE,
\* whatever the sample, the release timer and the readiness of the ADC.
C5_HardCapAtNextIteration ==
  [][ (g_state = "ACTIVE" /\ Millis - session_t0 >= ACTIVE_MAX_MS /\ ev'.op = "loop") =>
        (g_state' = "IDLE" /\ ev'.posts >= 1) ]_vars

\* C6: a termination (hysteresis or hard cap, upload ok or failed) leaves the
\* machine IDLE with g_pauseUntilMs = millis() + POST_ACTIVE_COOLDOWN_MS; for
\* POST_ACTIVE_COOLDOWN_MS after a termination, and in any loop iteration that
\* finds a cooldown running, no step IDLE -> ACTIVE is made and armOk is not
\* granted.
C6_TerminationCooldown ==
  [][ /\ Terminated(ev') =>
           /\ g_state' = "IDLE"
           /\ g_pauseUntilMs' = Millis' + POST_ACTIVE_COOLDOWN_MS
      /\ (termClock # -1 /\ clock' - termClock < POST_ACTIVE_COOLDOWN_MS) =>
           (~Started /\ (armOk' => armOk))
      /\ (InCooldown /\ ev'.op = "loop") =>
           (g_state' = g_state /\ armOk' = armOk) ]_vars

\* a session has just terminated with a failed upload and the cooldown runs
C6_FailedUploadCooldown ==
  Terminated(ev) /\ ~ev.ok /\ g_state = "IDLE" /\ InCooldown

\* C7: when a loop iteration has terminated a session (the upload has returned,
\* with either outcome, and the machine is IDLE again), g_buf is empty.
C7_BufferReleased ==
  Terminated(ev) => g_buf = <<>>

\* C8: when cmdCalibrate, cmdCal1, cmdCal2 or cmdSolve2pt has returned, on any
\* path, g_pauseUntilMs lies in the future.
C8_CooldownAfterCalibration ==
  ev.op \in {"cal", "cal1", "cal2", "solve"} => InCooldown

CalAborted(e) ==
  /\ e.op = "cal"
  /\ e.mass > 0
  /\ \/ e.out \in {"tare-fail", "zero-timeout", "plateau-timeout"}
     \/ e.out = "measured" /\ Abs(e.raw - e.zeroRaw) < 20000

\* C9: a `cal` that aborts (tare failure, zero-stability timeout, plateau
\* timeout, or a raw delta below 20000 counts) leaves the NVS key `cal` and
\* the live calibration factor as they were before the command.
C9_AbortKeepsCalibration ==
  [][ CalAborted(ev') => (nvs' = nvs /\ currentCalFactor' = currentCalFactor) ]_vars

\* a `cal` aborted on a negligible delta while a saved factor was in use
C9_AbortWithSavedFactor ==
  /\ CalAborted(ev)
  /\ ev.out = "measured"
  /\ nvs.has
  /\ currentCalFactor = nvs.cal

(***************************************************************************)
(* Properties of the endpoints                                             *)
(***************************************************************************)
JobsOfEvent(tbl, event_id) == { j \in DOMAIN tbl : tbl[j].event_id = event_id }

C12_UnauthorizedTouchesNothing ==
  [][ /\ \A req \in IngestRequests :
           ( /\ req.method = "POST"
             /\ env.SB_URL # "" /\ env.SB_SERVICE_ROLE_KEY # ""
             /\ env.FUNCTION_SECRET # ""
             /\ req.hdr # env.FUNCTION_SECRET
             /\ Ingest(req) ) =>
           (iresp'.status = 401 /\ UNCHANGED serverVars)
      /\ \A w \in Workers, hdr \in HeaderSecrets, batch \in BatchSizes, dbErr \in BOOLEAN :
           ( /\ env.FUNCTION_SECRET_PROCESSOR # ""
             /\ hdr # env.FUNCTION_SECRET_PROCESSOR
             /\ WStart(w, hdr, batch, dbErr) ) =>
           (wresp'[w].status = 401 /\ UNCHANGED <<serverVars, wpc, wjobs>>) ]_vars

\* both endpoints have refused a request while an event and its job are stored
C12_BothRefused ==
  /\ env = FullEnv
  /\ iresp.status = 401
  /\ wresp[1].status = 401
  /\ Len(weight_events) = 1
  /\ weight_event_jobs[1].status = "pending"

\* C13: a POST to the ingest endpoint or to the register-device endpoint while
\* SB_URL, SB_SERVICE_ROLE_KEY or FUNCTION_SECRET is unset, and any request to
\* the worker while FUNCTION_SECRET_PROCESSOR is unset, is answered 500,
\* whatever its x-function-secret header.
C13_MissingSecretIs500 ==
  [][ /\ \A req \in IngestRequests :
           ( /\ req.method = "POST"
             /\ (env.SB_URL = "" \/ env.SB_SERVICE_ROLE_KEY = "" \/ env.FUNCTION_SECRET = "")
             /\ Ingest(req) ) =>
           iresp'.status = 500
      /\ \A w \in Workers, hdr \in HeaderSecrets, batch \in BatchSizes, dbErr \in BOOLEAN :
           (env.FUNCTION_SECRET_PROCESSOR = "" /\ WStart(w, hdr, batch, dbErr)) =>
           wresp'[w].status = 500
      /\ \A req \in RegisterRequests, db \in UpsertOutcomes :
           ( /\ req.method = "POST"
             /\ (env.SB_URL = "" \/ env.SB_SERVICE_ROLE_KEY = "" \/ env.FUNCTION_SECRET = "")
             /\ Register(req, db) ) =>
           rresp'.status = 500 ]_vars

\* C14: a POST with the right secret, the scale_id of a registered device and
\* an empty samples array is not answered 400.
C14_EmptySamplesAccepted ==
  [][ \A req \in IngestRequests :
        ( /\ req.method = "POST"
          /\ env.SB_URL # "" /\ env.SB_SERVICE_ROLE_KEY # ""
          /\ env.FUNCTION_SECRET # "" /\ req.hdr = env.FUNCTION_SECRET
          /\ req.body.kind = "object"
          /\ ScaleRows(req.body.scale_id) # {}
          /\ req.body.samples = <<>>
          /\ Ingest(req) ) =>
        iresp'.status # 400 ]_vars

CurrentJob(w) == wjobs[w][widx[w]]

\* The worker goes on after a job: to the next job of its batch, or, after the
\* last one, to the 200 response with picked = number of claimed jobs.
Continues(w) ==
  IF widx[w] < Len(wjobs[w])
  THEN wpc'[w] = "job" /\ widx'[w] = widx[w] + 1 /\ wjobs'[w] = wjobs[w]
  ELSE wpc'[w] = "idle" /\ wresp'[w] = [status |-> 200, picked |-> Len(wjobs[w])]

\* C15: when a worker processes a claimed job whose event has an empty samples
\* array (and nothing throws), the job becomes done with error "no samples", no
\* Result row is inserted, and the worker continues with the next job.
C15_NoSamplesIsDoneWithNote ==
  [][ \A w \in Workers :
        ( /\ wpc[w] = "job"
          /\ Len(weight_events[weight_event_jobs[CurrentJob(w)].event_id].samples) = 0
          /\ WProcess(w, Nothing) ) =>
        /\ weight_event_jobs'[CurrentJob(w)].status = "done"
        /\ weight_event_jobs'[CurrentJob(w)].error = "no samples"
        /\ weight_event_results' = weight_event_results
        /\ Continues(w) ]_vars

\* a worker is at the second job of its batch after a first one without samples
C15_SkippedToNextJob ==
  \E w \in Workers :
    /\ wpc[w] = "job"
    /\ widx[w] = 2
    /\ weight_event_jobs[wjobs[w][1]].status = "done"
    /\ weight_event_jobs[wjobs[w][1]].error = "no samples"
    /\ weight_event_jobs[wjobs[w][2]].status = "processing"
    /\ weight_event_results = <<>>

\* C16: when processing a claimed job throws, the job becomes failed with
\* error = the message of what was thrown, and the worker continues: with the
\* next job of the batch or, after the last one, with the 200 response whose
\* picked is the number of claimed jobs.
C16_ThrowFailsJobOnly ==
  [][ \A w \in Workers, e \in Exceptions :
        (wpc[w] = "job" /\ WProcess(w, e)) =>
        /\ weight_event_jobs'[CurrentJob(w)].status = "failed"
        /\ weight_event_jobs'[CurrentJob(w)].error = e.message
        /\ Continues(w) ]_vars

(***************************************************************************)
(* tareWithTimeout run on its own                                          *)
(***************************************************************************)
MaxTareClock == 15000    \* milliseconds a blocked tare is followed for

SEED_WINDOW_MS == 300    \* sampleRawFor(/*window_ms=*/300, ...)
POWER_CYCLE_MS == 452    \* delay(2) + delay(450) of the digital power cycle
FALLBACK_MARGIN_MS == 500 \* elapsed + 500 < overall_timeout_ms
RawZero == 1000          \* the raw count every read of the unloaded cell returns
OldOffset == 7           \* the offset of the scale before the tare
StableRawMs == 500       \* readStableRaw(5, 50, 2400, 300) with a sample every 100 ms
BlockStepMs == 1000      \* a stretch of `while (!scale.is_ready()) delay(1)`

\* (samples, per_read_timeout_ms, overall_timeout_ms): the call of the
\* calibration commands and of setup(), and a call with a short overall budget.
TareCalls ==
  { [samples |-> 25, per_read |-> 500, overall |-> 12000],
    [samples |-> 3, per_read |-> 500, overall |-> 2000] }

\* What the ADC does during one wait for data-ready: ready after `after` ms,
\* or not ready for the whole wait.
AdcWaits ==
  { [ready |-> TRUE, after |-> d] : d \in {0, 100} } \cup { [ready |-> FALSE, after |-> 0] }

TareInit ==
  /\ ServerInit
  /\ DeviceInit
  /\ env = FullEnv
  /\ wpc = [w \in Workers |-> "idle"]
  /\ wjobs = [w \in Workers |-> <<>>]
  /\ widx = [w \in Workers |-> 0]
  /\ wresp = [w \in Workers |-> NoResp]
  /\ iresp = NoResp
  /\ rresp = NoResp
  /\ \E a \in TareCalls :
       call = [fn |-> "tareWithTimeout", pc |-> "entry", samples |-> a.samples,
               per_read |-> a.per_read, overall |-> a.overall,
               t0 |-> 0, now |-> 0, got |-> 0, sum |-> 0, recoveryTried |-> FALSE,
               ret |-> "none", offset |-> OldOffset]

\* Lines 1075-1085: t0 = millis(); if the ADC is not ready, a 300 ms raw window
\* seeds the sum when it caught at least one sample.
TareEntry(ready, seeded) ==
  /\ call.pc = "entry"
  /\ call' = IF ready THEN [call EXCEPT !.pc = "loop"]
             ELSE IF seeded
             THEN [call EXCEPT !.pc = "loop", !.now = @ + SEED_WINDOW_MS,
                               !.sum = @ + RawZero, !.got = @ + 1]
             ELSE [call EXCEPT !.pc = "loop", !.now = @ + SEED_WINDOW_MS]
  /\ UNCHANGED restVars

TareLoopCond == call.got < call.samples /\ call.now - call.t0 < call.overall

\* One iteration of the while loop of lines 1087-1123, up to its end or to the
\* call of readStableRaw.
TareLoop(adc) ==
  /\ call.pc = "loop"
  /\ TareLoopCond
  /\ call' =
       IF adc.ready
       THEN [call EXCEPT !.now = @ + adc.after, !.sum = @ + RawZero, !.got = @ + 1]
       ELSE LET now1 == call.now + call.per_read IN
            IF ~call.recoveryTried /\ call.got = 0
            THEN [call EXCEPT !.recoveryTried = TRUE, !.now = now1 + POWER_CYCLE_MS]
            ELSE IF (now1 - call.t0) + FALLBACK_MARGIN_MS < call.overall
            THEN [call EXCEPT !.now = now1, !.pc = "readStableRaw"]
            ELSE [call EXCEPT !.now = now1]
  /\ UNCHANGED restVars

\* readStableRaw(5, 50, 2400, 300) inside the loop: the ADC delivers and the
\* call returns a mean ...
StableRawReturns ==
  /\ call.pc = "readStableRaw"
  /\ call' = [call EXCEPT !.pc = "loop", !.now = @ + StableRawMs,
                          !.sum = @ + RawZero, !.got = @ + 1]
  /\ UNCHANGED restVars

\* ... or the ADC is not ready and readStableRaw stays in its unbounded wait
\* `while (!scale.is_ready()) { delay(1); }`.
StableRawBlocked ==
  /\ call.pc = "readStableRaw"
  /\ call.now - call.t0 < MaxTareClock
  /\ call' = [call EXCEPT !.now = @ + BlockStepMs]
  /\ UNCHANGED restVars

\* Lines 1125-1134.
TareReturn ==
  /\ call.pc = "loop"
  /\ ~TareLoopCond
  /\ call' = IF call.got = 0
             THEN [call EXCEPT !.pc = "returned", !.ret = "false"]
             ELSE [call EXCEPT !.pc = "returned", !.ret = "true",
                               !.offset = call.sum \div call.got]
  /\ UNCHANGED restVars

TareNext ==
  \/ \E ready \in BOOLEAN, seeded \in BOOLEAN : TareEntry(ready, seeded)
  \/ \E adc \in AdcWaits : TareLoop(adc)
  \/ StableRawReturns
  \/ StableRawBlocked
  \/ TareReturn

SpecTare == TareInit /\ [][TareNext]_vars

\* The longest a tare may last when each of its waits is bounded: the seed
\* window, the overall budget, and one last iteration made of a per-read wait
\* followed by the power cycle or by a stability-gated read.
TareBudget ==
  SEED_WINDOW_MS + call.overall + call.per_read + POWER_CYCLE_MS + StableRawMs

\* C17: tareWithTimeout has returned by the time its budget has elapsed,
\* whatever the ADC does; a tare that returns with zero reads returns false and
\* leaves the offset as it was.
C17_TareIsTimeBoxed ==
  /\ call.pc # "returned" => call.now - call.t0 <= TareBudget
  /\ (call.pc = "returned" /\ call.got = 0) => (call.ret = "false" /\ call.offset = OldOffset)

(***************************************************************************)
(* readStableRaw run on its own                                            *)
(***************************************************************************)
STABLE_BUF_LEN == 128    \* static long buf[128]
SamplePeriodMs == 100    \* the HX711 at 10 samples per second
RawValues == {-5, 10}    \* raw counts a read may return

\* (minSamples, maxSamples, maxStdDevCounts, minDurationMs)
StableCalls ==
  { [minSamples |-> 2, maxSamples |-> 3, maxStdDev |-> 8, minDurationMs |-> 0],
    [minSamples |-> 5, maxSamples |-> 3, maxStdDev |-> 8, minDurationMs |-> 300],
    [minSamples |-> 5, maxSamples |-> 8, maxStdDev |-> 8, minDurationMs |-> 300],
    [minSamples |-> 2, maxSamples |-> 200, maxStdDev |-> 7, minDurationMs |-> 300] }

\* buf[0..n-1], kept as the number of entries holding each value: the routine
\* only ever sums over the whole buffer.
BufCount(buf) == buf[-5] + buf[10]
BufSum(buf) == (-5) * buf[-5] + 10 * buf[10]

\* lround(num / den) for den > 0: to nearest, halves away from zero.
LRound(num, den) ==
  IF num >= 0 THEN (2 * num + den) \div (2 * den)
  ELSE -((2 * (-num) + den) \div (2 * den))

\* computeStdDev(buf, n, mean) <= max, with mean = sum / n: acc is the sum of
\* the squared deviations d = arr[i] - mean, the result sqrt(acc / (n - 1)) for
\* n > 1 and 0 otherwise.  Both sides are multiplied by n * n * (n - 1).
StdDevAtMost_population(buf, max) ==
  LET n == BufCount(buf)
      sum == BufSum(buf)
      accN2 == buf[-5] * (n * (-5) - sum) * (n * (-5) - sum)
               + buf[10] * (n * 10 - sum) * (n * 10 - sum)
  IN accN2 <= max * max * n * n * n
StdDevAtMost(buf, max) ==
  LET n == BufCount(buf)
      sum == BufSum(buf)
      accN2 == buf[-5] * (n * (-5) - sum) * (n * (-5) - sum)
               + buf[10] * (n * 10 - sum) * (n * 10 - sum)
  IN IF n > 1 THEN accN2 <= max * max * n * n * (n - 1) ELSE 0 <= max

StableInit ==
  /\ ServerInit
  /\ DeviceInit
  /\ env = FullEnv
  /\ wpc = [w \in Workers |-> "idle"]
  /\ wjobs = [w \in Workers |-> <<>>]
  /\ widx = [w \in Workers |-> 0]
  /\ wresp = [w \in Workers |-> NoResp]
  /\ iresp = NoResp
  /\ rresp = NoResp
  /\ \E a \in StableCalls :
       call = [fn |-> "readStableRaw", pc |-> "loop", arg |-> a,
               maxSamples |-> Min(a.maxSamples, STABLE_BUF_LEN),
               n |-> 0, buf |-> [v \in RawValues |-> 0], start |-> 0, now |-> 0,
               early |-> FALSE, ret |-> 0]

\* One iteration of while (n < maxSamples): wait for the ADC, store the read,
\* and return the rounded mean if the stability test passes.
ReadSample(raw) ==
  /\ call.pc = "loop"
  /\ call.n < call.maxSamples
  /\ LET buf == [call.buf EXCEPT ![raw] = @ + 1]
         n == call.n + 1
         now == call.now + SamplePeriodMs
         elapsed == now - call.start
     IN call' =
          IF n >= call.arg.minSamples /\ elapsed >= call.arg.minDurationMs
             /\ StdDevAtMost(buf, call.arg.maxStdDev)
          THEN [call EXCEPT !.buf = buf, !.n = n, !.now = now, !.pc = "returned",
                            !.early = TRUE, !.ret = LRound(BufSum(buf), n)]
          ELSE [call EXCEPT !.buf = buf, !.n = n, !.now = now]
  /\ UNCHANGED restVars

\* Fallback after the loop: the mean of the n samples.
StableFallback ==
  /\ call.pc = "loop"
  /\ ~(call.n < call.maxSamples)
  /\ call' = [call EXCEPT !.pc = "returned", !.ret = LRound(BufSum(call.buf), call.n)]
  /\ UNCHANGED restVars

StableNext ==
  \/ \E raw \in RawValues : ReadSample(raw)
  \/ StableFallback

SpecStableRaw == StableInit /\ [][StableNext]_vars

\* Sample variance (divisor n - 1) of the buffer at most max^2, from the sum
\* and the sum of squares: (n * sumSq - sum^2) / (n * (n - 1)) <= max^2.
SampleStdDevWithin(buf, max) ==
  LET n == BufCount(buf)
      sumSq == 25 * buf[-5] + 100 * buf[10]
  IN n > 1 => n * sumSq - BufSum(buf) * BufSum(buf) <= max * max * n * (n - 1)

\* twice the distance of r from num / den, times den, is at most den
NearestTo(r, num, den) == Abs(2 * (r * den - num)) <= den

\* C18: when readStableRaw has returned, its result is the mean of all n
\* collected samples rounded to the nearest integer, and either n >= minSamples,
\* the elapsed time >= minDurationMs and the sample standard deviation (divisor
\* n - 1) <= maxStdDevCounts, or n = min(maxSamples, 128).
C18_StableRawResult ==
  call.pc = "returned" =>
    /\ call.n = BufCount(call.buf)
    /\ call.n >= 1
    /\ NearestTo(call.ret, BufSum(call.buf), call.n)
    /\ \/ /\ call.n >= call.arg.minSamples
          /\ call.now - call.start >= call.arg.minDurationMs
          /\ SampleStdDevWithin(call.buf, call.arg.maxStdDev)
       \/ call.n = Min(call.arg.maxSamples, 128)

\* the call with maxSamples = 200 has run into the cap of 128 samples
C18_CapReached ==
  /\ call.pc = "returned"
  /\ ~call.early
  /\ call.arg.maxSamples = 200
  /\ call.n = 128

(***************************************************************************)
(* waitStableRawPlateau run on its own.  Each pass of its loop blocks in   *)
(* sampleRawFor for window_ms and gets the window's sample count, rounded  *)
(* mean and standard deviation, which are the inputs here.  Means are      *)
(* multiples of 100 so that lroundf(|mean| * 0.010f) is |mean| / 100.      *)
(***************************************************************************)
SD_INFINITY == 2147483647        \* sd_out = INFINITY of a window without samples
PlateauMeans == {97500, 100000, 104000, -100000}
PlateauSds == {100, 6000}        \* below and above maxSdCounts = 5000

\* what sampleRawFor hands back: no sample at all, or n samples
WindowResults ==
  {[n |-> 0, mean |-> 0, sd |-> SD_INFINITY]}
    \cup {[n |-> 5, mean |-> m, sd |-> sd] : m \in PlateauMeans, sd \in PlateauSds}

\* (window_ms, maxSdCounts, stable_ms, timeout_ms); the first is the call of
\* the calibration handlers with the timeout cut to 24 s
PlateauCalls ==
  { [window_ms |-> 1200, maxSdCounts |-> 5000, stable_ms |-> 2000, timeout_ms |-> 24000],
    [window_ms |-> 1200, maxSdCounts |-> 5000, stable_ms |-> 1200, timeout_ms |-> 6000] }

NoWindow == [n |-> 0, mean |-> 0, sd |-> SD_INFINITY, end |-> 0]

PlateauInit ==
  /\ ServerInit
  /\ DeviceInit
  /\ env = FullEnv
  /\ wpc = [w \in Workers |-> "idle"]
  /\ wjobs = [w \in Workers |-> <<>>]
  /\ widx = [w \in Workers |-> 0]
  /\ wresp = [w \in Workers |-> NoResp]
  /\ iresp = NoResp
  /\ rresp = NoResp
  /\ \E a \in PlateauCalls :
       call = [fn |-> "waitStableRawPlateau", pc |-> "loop", arg |-> a,
               t0 |-> 0, now |-> 0, stableStart |-> 0, havePrevStable |-> FALSE,
               prevMean |-> 0, prevTs |-> 0, ret |-> FALSE, mean_raw_out |-> 0,
               windows |-> 0, last |-> NoWindow, before |-> NoWindow, since |-> -1]

\* long tol = (long)lroundf(fabsf((float)mean_raw) * 0.010f) + 2000
PlateauTol(mean_raw) == LRound(Abs(mean_raw), 100) + 2000

\* One pass of the while loop: a window is sampled, then judged.  last and
\* before are the two latest windows with the time each ended, since the end
\* of the first window of the unbroken run of stable windows (-1: none).
PlateauWindow(w) ==
  /\ call.pc = "loop"
  /\ call.now - call.t0 < call.arg.timeout_ms
  /\ LET now == call.now + call.arg.window_ms
         stable == w.n > 0 /\ w.sd <= call.arg.maxSdCounts
         stableStart == IF call.stableStart = 0 THEN now ELSE call.stableStart
         compare == call.havePrevStable /\ now - call.prevTs >= call.arg.window_ms
         pass == compare /\ Abs(w.mean - call.prevMean) <= PlateauTol(w.mean)
                         /\ now - stableStart >= call.arg.stable_ms
         seen == [call EXCEPT !.now = now, !.windows = @ + 1,
                              !.before = call.last,
                              !.last = [n |-> w.n, mean |-> w.mean, sd |-> w.sd, end |-> now],
                              !.since = IF ~stable THEN -1
                                        ELSE IF call.since = -1 THEN now ELSE call.since]
     IN call' =
          IF ~stable
          THEN [seen EXCEPT !.stableStart = 0, !.havePrevStable = FALSE]
          ELSE IF pass
          THEN [seen EXCEPT !.stableStart = stableStart, !.pc = "returned",
                            !.ret = TRUE, !.mean_raw_out = w.mean]
          ELSE IF ~call.havePrevStable \/ compare
          THEN [seen EXCEPT !.stableStart = stableStart, !.havePrevStable = TRUE,
                            !.prevMean = w.mean, !.prevTs = now]
          ELSE [seen EXCEPT !.stableStart = stableStart]
  /\ UNCHANGED restVars

\* the loop condition fails: "Timeout waiting for stable plateau", return false
PlateauTimeout ==
  /\ call.pc = "loop"
  /\ ~(call.now - call.t0 < call.arg.timeout_ms)
  /\ call' = [call EXCEPT !.pc = "returned", !.ret = FALSE]
  /\ UNCHANGED restVars

PlateauNext ==
  \/ \E w \in WindowResults : PlateauWindow(w)
  \/ PlateauTimeout

SpecPlateau == PlateauInit /\ [][PlateauNext]_vars

LowDispersion(w) == w.n > 0 /\ w.sd <= call.arg.maxSdCounts

\* C29: waitStableRawPlateau returns true only when its two latest windows
\* are both low-dispersion, their means differ by no more than
\* max(1% of |mean|, 2000 counts), and the unbroken run of stable windows
\* has lasted at least stable_ms; a window that is not low-dispersion
\* restarts the duration and the comparison.
C29_PlateauGate ==
  /\ [](call.pc = "returned" /\ call.ret =>
          /\ call.windows >= 2
          /\ LowDispersion(call.last)
          /\ LowDispersion(call.before)
          /\ 100 * Abs(call.last.mean - call.before.mean)
                <= Max(Abs(call.last.mean), 100 * 2000)
          /\ call.since # -1
          /\ call.last.end - call.since >= call.arg.stable_ms)
  /\ [][(call.pc = "loop" /\ call'.windows = call.windows + 1
                          /\ ~LowDispersion(call'.last)) =>
          /\ call'.pc = "loop"
          /\ call'.stableStart = 0
          /\ ~call'.havePrevStable]_vars

(***************************************************************************)
(* Properties of a session's end                                           *)
(***************************************************************************)
\* C35: an ACTIVE session submits its event exactly once: a loop iteration
\* that ends the session calls postEventToSupabase one time, also when the
\* hysteresis condition and the hard cap both hold in that iteration, and an
\* iteration that leaves the session ACTIVE does not call it.
C35_OneUploadPerSession ==
  [][ (g_state = "ACTIVE" /\ ev'.op = "loop") =>
        ev'.posts = IF g_state' = "IDLE" THEN 1 ELSE 0 ]_vars

\* A calibration command that passed its argument checks has been handled.
ValidCalCommand(e) ==
  /\ e.op \in {"cal", "cal1", "cal2", "solve"}
  /\ e.out \notin {"invalid-mass", "need-points", "same-mass"}

\* C36: a cal, cal1, cal2 or solve command with valid arguments handled
\* while ACTIVE abandons the session: the state becomes IDLE, the buffer is
\* cleared and the command submits nothing; events are submitted only by a
\* loop iteration of an ACTIVE session, and a session starts with an empty
\* buffer, so the abandoned samples are never submitted.
C36_CommandAbandonsSession ==
  [][ /\ (g_state = "ACTIVE" /\ ValidCalCommand(ev')) =>
           (g_state' = "IDLE" /\ g_buf' = <<>> /\ ev'.posts = 0)
      /\ ev'.posts > 0 => (g_state = "ACTIVE" /\ ev'.op = "loop")
      /\ (g_state = "IDLE" /\ g_state' = "ACTIVE") => g_buf' = <<>> ]_vars

\* solve has been handled during the first session, which never terminated:
\* the machine is IDLE with an empty buffer
C36_SolvedMidSession ==
  /\ ev.op = "solve"
  /\ ev.out = "solved"
  /\ session_t0 > 0
  /\ clock - session_t0 < ACTIVE_MAX_MS
  /\ termClock = -1
  /\ g_state = "IDLE"
  /\ g_buf = <<>>

\* C39: whenever a cooldown pauses capture (millis() < g_pauseUntilMs) the
\* machine is IDLE: no cooldown runs during an ACTIVE session.
C39_CooldownOnlyInIdle ==
  (g_pauseUntilMs - clock > 0) => g_state = "IDLE"

\* Time of [from, to] that falls into the latest cooldown, which ends at
\* g_pauseUntilMs and lasts CAL_COOLDOWN_MS or longer.
PausedWithin(from, to) ==
  Max(0, Min(to, g_pauseUntilMs) - Max(from, g_pauseUntilMs - CAL_COOLDOWN_MS))

\* C40: armOk is granted only after |EMA| <= ARM_BAND_KG has held over
\* at least ARM_STABLE_MS of un-paused IDLE time: the time capture was paused
\* does not count, so armOk is not granted at the first IDLE tick after a
\* pause.
C40_ArmNeedsUnpausedStability ==
  [][ (~armOk /\ armOk') =>
        /\ bandSince' # -1
        /\ (clock - bandSince') - PausedWithin(bandSince', clock) >= ARM_STABLE_MS ]_vars

(***************************************************************************)
(* Properties of the ingest endpoint's device lookup                       *)
(***************************************************************************)
\* The request passes the configuration, secret and payload checks.
WellFormed(req) ==
  /\ req.method = "POST"
  /\ env.SB_URL # "" /\ env.SB_SERVICE_ROLE_KEY # ""
  /\ env.FUNCTION_SECRET # "" /\ req.hdr = env.FUNCTION_SECRET
  /\ req.body.kind = "object"
  /\ req.body.scale_id # ""
  /\ req.body.samples # <<>>
  /\ ParseSamples(req.body.samples, 1, <<>>).ok

\* C34: an authenticated, well-formed ingest request for a device_id without
\* a row: with a default household configured the device is registered with
\* household_id = the default and display_name = device_id and the event is
\* written (or, when the database reports an error, the answer is 500 and no
\* event is written); without one the answer is 404 and no table changes.
C34_UnknownDevice ==
  [][\A req \in IngestRequests :
       (WellFormed(req) /\ (\A r \in scales : r.device_id # req.body.scale_id)
          /\ Ingest(req)) =>
         IF env.DEFAULT_HOUSEHOLD_ID # ""
         THEN /\ iresp'.status \in {200, 500}
              /\ iresp'.status = 200 =>
                    /\ [device_id |-> req.body.scale_id,
                        household_id |-> env.DEFAULT_HOUSEHOLD_ID,
                        display_name |-> req.body.scale_id] \in scales'
                    /\ Len(weight_events') = Len(weight_events) + 1
                    /\ weight_events'[Len(weight_events')].scale_id = req.body.scale_id
              /\ iresp'.status = 500 => weight_events' = weight_events
         ELSE /\ iresp'.status = 404
              /\ UNCHANGED serverVars]_vars

\* the first event of a device: registered under the default household with
\* its device_id as display name, event stored
C34_AutoRegistered ==
  /\ iresp.status = 200
  /\ Len(weight_events) = 1
  /\ \E r \in scales : /\ r.device_id = weight_events[1].scale_id
                        /\ r.display_name = r.device_id
                        /\ r.household_id = env.DEFAULT_HOUSEHOLD_ID
                        /\ r.household_id # ""

\* C37: a request to the ingest endpoint leaves every existing device row as
\* it is: household_id and display_name of a row that exists for the
\* request's device_id do not change, whatever the device lookup returns.
C37_IngestKeepsDeviceRow ==
  [][\A req \in ServerIngestRequests :
       (scales' # scales /\ Ingest(req)) => \A r \in scales : r \in scales']_vars

(***************************************************************************)
(* Worker: consensusRefineV2 run on its own                                *)
(* Times are in milliseconds as stored (the source divides by 1000), kg    *)
(* values are whole kilograms; medians and percentiles, which fall between *)
(* integers, are carried multiplied by 2 and by 40.                        *)
(***************************************************************************)
CONSENSUS_BAND_KG == 1   \* consensusRefineV2(samples, raw, recentRawWeights, 1.0)
MIN_KEPT == 10           \* if (keep.length<10)
MIN_WIN == 5             \* Math.max(5, Math.round(3.0*hz))
DEFAULT_HZ == 10         \* hz when no positive time step exists
TAIL_MS == 12000         \* tK[last]-12

\* [...a].sort((x,y)=>x-y)
RECURSIVE InsertNum(_, _)
InsertNum(x, s) ==
  IF s = <<>> THEN <<x>>
  ELSE IF x < Head(s) THEN <<x>> \o s
  ELSE <<Head(s)>> \o InsertNum(x, Tail(s))

RECURSIVE SortNum(_)
SortNum(s) == IF s = <<>> THEN <<>> ELSE InsertNum(s[Len(s)], SortNum(SubSeq(s, 1, Len(s) - 1)))

\* [...samples].sort((a,b)=>a.t-b.t), a stable sort
RECURSIVE InsertByT(_, _)
InsertByT(x, s) ==
  IF s = <<>> THEN <<x>>
  ELSE IF x.t < Head(s).t THEN <<x>> \o s
  ELSE <<Head(s)>> \o InsertByT(x, Tail(s))

RECURSIVE SortByT(_)
SortByT(s) == IF s = <<>> THEN <<>> ELSE InsertByT(s[Len(s)], SortByT(SubSeq(s, 1, Len(s) - 1)))

\* 2 * median(arr), arr not empty
Med2(arr) ==
  LET a == SortNum(arr)
      n == Len(a)
      m == n \div 2
  IN IF n % 2 = 1 THEN 2 * a[m + 1] ELSE a[m] + a[m + 1]

\* 40 * percentile(a, 5): idx = 0.05 * (n - 1), linear between floor and ceil
Pct5x40(arr) ==
  LET s == SortNum(arr)
      lo == (Len(s) - 1) \div 20
      r == (Len(s) - 1) % 20
  IN IF r = 0 THEN 40 * s[lo + 1]
     ELSE 2 * (s[lo + 1] * (20 - r) + s[lo + 2] * r)

KgOf(s) == [i \in DOMAIN s |-> s[i].kg]
TOf(s) == [i \in DOMAIN s |-> s[i].t]

\* 40 * lowCut, lowCut = Math.max(0.5*medPos, percentile(kg,5))
LowCut40(kg) ==
  LET pos == SelectSeq(kg, LAMBDA k : k > 0)
      medPos2 == IF pos # <<>> THEN Med2(pos) ELSE Med2(kg)
  IN Max(10 * medPos2, Pct5x40(kg))

\* The sorted series with t relative to the first sample, and its samples at
\* or above the floor (tK and kK together).
Normalized(samples) ==
  LET sorted == SortByT(samples)
  IN [i \in DOMAIN sorted |-> [t |-> sorted[i].t - sorted[1].t, kg |-> sorted[i].kg]]

FloorFiltered(series) ==
  LET cut == LowCut40(KgOf(series))
  IN SelectSeq(series, LAMBDA s : 40 * s.kg >= cut)

\* diffs(tK).filter(d=>d>0)
PositiveSteps(tK) ==
  LET d == [i \in 1..(Len(tK) - 1) |-> tK[i + 1] - tK[i]]
  IN SelectSeq(d, LAMBDA x : x > 0)

\* Math.round(3.0*hz), hz = 1/median(dt) with dt in seconds, or 10
Round3Hz(tK) ==
  LET dt == PositiveSteps(tK)
  IN IF dt = <<>> THEN 3 * DEFAULT_HZ
     ELSE (12000 + Med2(dt)) \div (2 * Med2(dt))

RefineWin(tK) == Max(MIN_WIN, Round3Hz(tK))

\* 4 * tailStart, tailStart = max(tK[0], max(tK[last]-12, tK[0]+0.75*dur))
TailStart4_first(tK) == 4 * tK[1]
TailStart4(tK) ==
  LET first == tK[1]
      last == tK[Len(tK)]
  IN Max(4 * first, Max(4 * (last - TAIL_MS), 4 * first + 3 * (last - first)))

\* Math.abs(m-consensus)<=bandKg, on doubled medians
WithinBand_always(m2, consensus2, bandKg) == TRUE
WithinBand(m2, consensus2, bandKg) == Abs(m2 - consensus2) <= 2 * bandKg

\* consider(rangeAll): the windows that pass the band test; best is the one
\* of them with the highest score.
Considered(kept, win, consensus2, bandKg, rangeAll) ==
  { i \in 1..(Len(kept) - win + 1) :
      /\ rangeAll \/ 4 * kept[i].t >= TailStart4(TOf(kept))
      /\ WithinBand(Med2(KgOf(SubSeq(kept, i, i + win - 1))), consensus2, bandKg) }

NullResult == [found |-> FALSE, windows |-> {}]

\* The member `result` of the return value: null, or the refined window,
\* given by the windows best is chosen from.
consensusRefineV2(currentSamples, firstPassWeight, recentRawWeights, bandKg) ==
  LET consensus2 == Med2(<<firstPassWeight>> \o recentRawWeights)
      kept == FloorFiltered(Normalized(currentSamples))
  IN IF Len(kept) < MIN_KEPT THEN NullResult
     ELSE LET win == RefineWin(TOf(kept))
              tail == Considered(kept, win, consensus2, bandKg, FALSE)
              all == Considered(kept, win, consensus2, bandKg, TRUE)
          IN IF tail # {} THEN [found |-> TRUE, windows |-> tail]
             ELSE IF all # {} THEN [found |-> TRUE, windows |-> all]
             ELSE NullResult

\* insertPayload: the consensus_* fields are set under if (cr).
InsertPayload(rawWeight, cr) ==
  [raw_stable_weight_kg |-> rawWeight, has_consensus_fields |-> cr.found]

\* Input series: n samples `step` ms apart starting at 5 s, the first p at
\* weight a and the rest at weight b, in time order or reversed.
Series(n, p, a, b, step, rev) ==
  LET s == [i \in 1..n |-> [t |-> 5000 + (i - 1) * step, kg |-> IF i <= p THEN a ELSE b]]
  IN IF rev THEN [i \in 1..n |-> s[n + 1 - i]] ELSE s

SeriesLengths == {9, 12, 24}
SeriesWeights == {0, 70, 72}
SeriesSteps == {100, 1000}

RefineInputs ==
  { [samples |-> Series(n, p, a, b, step, rev), firstPassWeight |-> w, recent |-> r] :
      n \in SeriesLengths, p \in {0, 3, 8}, a \in SeriesWeights, b \in {70, 72},
      step \in SeriesSteps, rev \in BOOLEAN,
      w \in {70, 75}, r \in { <<>>, <<80, 80>>, <<71, 72>> } }

RefineInit ==
  /\ ServerInit
  /\ DeviceInit
  /\ env = FullEnv
  /\ wpc = [w \in Workers |-> "idle"]
  /\ wjobs = [w \in Workers |-> <<>>]
  /\ widx = [w \in Workers |-> 0]
  /\ wresp = [w \in Workers |-> NoResp]
  /\ iresp = NoResp
  /\ rresp = NoResp
  /\ \E a \in RefineInputs :
       call = [fn |-> "consensusRefineV2", pc |-> "called", arg |-> a,
               cr |-> NullResult, insertPayload |-> InsertPayload(0, NullResult)]

\* Lines 1167-1195 of the worker: refine, then build the row to insert.
Refine ==
  /\ call.pc = "called"
  /\ LET cr == consensusRefineV2(call.arg.samples, call.arg.firstPassWeight,
                                 call.arg.recent, CONSENSUS_BAND_KG)
     IN call' = [call EXCEPT !.pc = "returned", !.cr = cr,
                             !.insertPayload = InsertPayload(call.arg.firstPassWeight, cr)]
  /\ UNCHANGED restVars

SpecRefine == RefineInit /\ [][Refine]_vars

\* The win-sized windows of the floor-filtered series of the call's samples.
KeptOfCall == FloorFiltered(Normalized(call.arg.samples))
WindowsOfCall == 1..(Len(KeptOfCall) - RefineWin(TOf(KeptOfCall)) + 1)

\* No window, anywhere in the series, has a median within 1 kg of the
\* consensus median([firstPass.weight, ...recentRawWeights]).
NoWindowInBand ==
  \A i \in WindowsOfCall :
    LET win == RefineWin(TOf(KeptOfCall))
        m2 == Med2(KgOf(SubSeq(KeptOfCall, i, i + win - 1)))
        c2 == Med2(<<call.arg.firstPassWeight>> \o call.arg.recent)
    IN m2 - c2 > 2 \/ c2 - m2 > 2

\* C19: when no win-sized window of the floor-filtered series has a median
\* within the band of the consensus, consensusRefineV2 returns result = null
\* and the row to insert has no consensus_* fields.
C19_NoWindowNoConsensus ==
  (call.pc = "returned" /\ NoWindowInBand) =>
    (~call.cr.found /\ ~call.insertPayload.has_consensus_fields)

\* a series with ten or more kept samples and several windows, all of them
\* outside the band, has been refined to null
C19_WindowsAllOutside ==
  /\ call.pc = "returned"
  /\ Len(KeptOfCall) >= MIN_KEPT
  /\ Cardinality(WindowsOfCall) >= 2
  /\ NoWindowInBand
  /\ ~call.cr.found
  /\ ~call.insertPayload.has_consensus_fields

\* Twice the median of the window of the kept series that starts at index i,
\* and twice the consensus of the call.
WindowMed2(i) ==
  Med2(KgOf(SubSeq(KeptOfCall, i, i + RefineWin(TOf(KeptOfCall)) - 1)))
Consensus2OfCall == Med2(<<call.arg.firstPassWeight>> \o call.arg.recent)

\* C32: a non-null result of consensusRefineV2 is a win-sized window of the
\* floor-filtered series whose median, the result's weight, is within
\* band_kg of consensus = median([raw.weight, ...recent raw weights]).
C32_ResultWithinBand ==
  (call.pc = "returned" /\ call.cr.found) =>
    /\ call.cr.windows # {}
    /\ \A i \in call.cr.windows :
          /\ i \in WindowsOfCall
          /\ WindowMed2(i) - Consensus2OfCall <= 2 * CONSENSUS_BAND_KG
          /\ Consensus2OfCall - WindowMed2(i) <= 2 * CONSENSUS_BAND_KG

\* a result whose weight differs from the raw weight and lies exactly
\* band_kg away from the consensus
C32_RefinedAwayFromRaw ==
  /\ call.pc = "returned"
  /\ call.cr.found
  /\ \E i \in call.cr.windows :
        /\ WindowMed2(i) - Consensus2OfCall = 2 * CONSENSUS_BAND_KG
        /\ WindowMed2(i) # 2 * call.arg.firstPassWeight

\* The window at index i starts at or after
\* tailStart = max(tK[0], tK[last] - 12, tK[0] + 0.75 * dur).
StartsInTail(i) ==
  LET tK == TOf(KeptOfCall)
      first == tK[1]
      last == tK[Len(tK)]
      s == tK[i]
  IN /\ s >= first
     /\ s >= last - 12000
     /\ 4 * (s - first) >= 3 * (last - first)

InBand(i) ==
  /\ WindowMed2(i) - Consensus2OfCall <= 2 * CONSENSUS_BAND_KG
  /\ Consensus2OfCall - WindowMed2(i) <= 2 * CONSENSUS_BAND_KG

\* C33: the tail is searched first: the result is a window that starts
\* before tail_start only if no window starting at or after tail_start has
\* its median within band_kg of the consensus.
C33_TailFirst ==
  (call.pc = "returned" /\ call.cr.found) =>
    \A i \in call.cr.windows :
      ~StartsInTail(i) => \A j \in WindowsOfCall : StartsInTail(j) => ~InBand(j)

\* a result from before the tail: the tail has windows, none of them in band
C33_ResultBeforeTail ==
  /\ call.pc = "returned"
  /\ call.cr.found
  /\ \E i \in call.cr.windows : ~StartsInTail(i)
  /\ \E j \in WindowsOfCall : StartsInTail(j)

(***************************************************************************)
(* Worker: detectStablePlateauV6 run on its own                            *)
(* Sample weights are whole kilograms; a filtered weight may be a half, so *)
(* the filtered trace is carried doubled, the returned weight four-fold,   *)
(* start_s and end_s in quarter milliseconds (4000 per second).  The       *)
(* arithmetic is exact where the code's is in doubles: a derivative is a   *)
(* fraction, a rolling deviation its squared numerator, and each threshold *)
(* test is decided by cross-multiplying.  The score that picks best among  *)
(* the regions is not computed: the result ranges over every region of     *)
(* three seconds or more.                                                  *)
(***************************************************************************)
MIN_PLATEAU_MS == 3000   \* if (dur<3) continue
FALLBACK_TAIL_MS == 12000 \* Math.max(12, 0.25*dur)
HAMPEL_K == 15           \* hampel(kK,15,4.0)
DetectLen == 15          \* samples of the longest block of an input series

RECURSIVE SumNum(_)
SumNum(s) == IF s = <<>> THEN 0 ELSE Head(s) + SumNum(Tail(s))

\* 2 * hampel(x, k, 4.0)[i]: x[i], or the median of x[i-k .. i+k] when
\* MAD > 0 and |x[i]-med| / (1.4826*MAD) > 4
hampel(x, k) ==
  [i \in DOMAIN x |->
     LET w == SubSeq(x, Max(1, i - k), Min(Len(x), i + k))
         med2 == Med2(w)
         M4 == Med2([j \in DOMAIN w |-> Abs(2 * w[j] - med2)])
     IN IF M4 > 0 /\ 10000 * Abs(2 * x[i] - med2) > 29652 * M4
        THEN med2 ELSE 2 * x[i]]

\* Math.round(0.6*hz), hz = 1/median(dt) with dt in seconds, or 10
Round06Hz(tK) ==
  LET dt == PositiveSteps(tK)
  IN IF dt = <<>> THEN 6
     ELSE (2400 + Med2(dt)) \div (2 * Med2(dt))

\* win * movingAvg(x, win)[idx], win > 1: the mean of the win samples ending
\* half a window ahead; x[0] before the first full window; x[idx] at the end
movingAvg(x, win) ==
  [idx \in DOMAIN x |->
     LET i == idx + (win \div 2)
     IN IF i > Len(x) THEN win * x[idx]
        ELSE IF i >= win THEN SumNum(SubSeq(x, i - win + 1, i))
        ELSE win * x[1]]

\* gradient(y, x)[i] as the fraction n/d; a zero x step divides by 1e-6 s,
\* a thousandth of the millisecond d counts
Slope(y, x, j, i) ==
  IF x[j] = x[i] THEN [n |-> 1000 * (y[j] - y[i]), d |-> 1]
  ELSE [n |-> y[j] - y[i], d |-> x[j] - x[i]]

gradient(y, x) ==
  [i \in DOMAIN y |->
     IF i = 1 THEN Slope(y, x, 2, 1)
     ELSE IF i = Len(y) THEN Slope(y, x, i, i - 1)
     ELSE Slope(y, x, i + 1, i - 1)]

\* deriv.map(Math.abs), and the order of fractions with positive d
AbsFrac(f) == [n |-> Abs(f.n), d |-> f.d]
FracLeq(f, g) == f.n * g.d <= g.n * f.d

RECURSIVE InsertFrac(_, _)
InsertFrac(f, s) ==
  IF s = <<>> THEN <<f>>
  ELSE IF FracLeq(f, Head(s)) THEN <<f>> \o s
  ELSE <<Head(s)>> \o InsertFrac(f, Tail(s))

RECURSIVE SortFrac(_)
SortFrac(s) == IF s = <<>> THEN <<>> ELSE InsertFrac(Head(s), SortFrac(Tail(s)))

\* median(arr) of fractions
MedFrac(arr) ==
  LET a == SortFrac(arr)
      m == Len(a) \div 2
  IN IF Len(a) % 2 = 1 THEN a[m + 1]
     ELSE [n |-> a[m].n * a[m + 1].d + a[m + 1].n * a[m].d, d |-> 2 * a[m].d * a[m + 1].d]

\* Math.abs(d) <= derivTh, derivTh = min(0.05, max(0.01, 0.6*medAbsDer));
\* the fraction f of doubled win-fold kilograms per millisecond is
\* 1000*f.n / (2*win*f.d) kg/s
WithinDerivTh(f, medAbsDer, win) ==
  /\ 10000 * f.n <= win * f.d
  /\ \/ 50000 * f.n <= win * f.d
     \/ 5 * f.n * medAbsDer.d <= 3 * medAbsDer.n * f.d

\* (2*win*rollingStd(x, win)[idx])^2 for doubled x: the deviation of the win
\* samples ending half a window ahead, 0 where there is no full window; then
\* a zero entry takes the unfilled value of its right neighbour
rollingStd(x, win) ==
  LET n == Len(x)
      out == [idx \in 1..n |->
                LET i == idx + (win \div 2)
                    w == SubSeq(x, i - win + 1, i)
                IN IF i <= n /\ i >= win
                   THEN win * SumNum([j \in DOMAIN w |-> w[j] * w[j]]) - SumNum(w) * SumNum(w)
                   ELSE 0]
  IN [i \in 1..n |-> IF out[i] # 0 THEN out[i] ELSE out[Min(n, i + 1)]]

\* rstd[i] <= stdTh, stdTh = max(0.06, min(0.2, 0.9*medRstd)), on squared
\* numerators v = (2*win*rstd[i])^2; medRstd is the median of the positive
\* entries (of all when none is positive), sqrt(lo) or (sqrt(lo)+sqrt(hi))/2
WithinStdTh(v, rstd, win) ==
  LET pos == SelectSeq(rstd, LAMBDA r : r > 0)
      s == SortNum(IF pos # <<>> THEN pos ELSE rstd)
      m == Len(s) \div 2
      lo == IF Len(s) % 2 = 1 THEN s[m + 1] ELSE s[m]
      hi == s[m + 1]
      L == 400 * v - 81 * (lo + hi)
  IN \/ 625 * v <= 9 * win * win
     \/ /\ 25 * v <= 4 * win * win
        /\ L <= 0 \/ L * L <= 26244 * lo * hi

\* mask (line 992) of the kept samples and their filtered weights
StableMask(tK, kg) ==
  LET smoothWin == Max(3, Round06Hz(tK))
      stdWin == Max(5, Round3Hz(tK))
      deriv == gradient(movingAvg(kg, smoothWin), tK)
      absDer == [i \in DOMAIN deriv |-> AbsFrac(deriv[i])]
      medAbsDer == MedFrac(absDer)
      rstd == rollingStd(kg, stdWin)
  IN [i \in DOMAIN kg |->
        /\ WithinDerivTh(absDer[i], medAbsDer, smoothWin)
        /\ WithinStdTh(rstd[i], rstd, stdWin)]

\* contiguous(mask): the maximal runs of true, as first and last index
Contiguous(mask) ==
  { r \in [a : DOMAIN mask, b : DOMAIN mask] :
      /\ r.a <= r.b
      /\ \A i \in r.a..r.b : mask[i]
      /\ r.a = 1 \/ ~mask[r.a - 1]
      /\ r.b = Len(mask) \/ ~mask[r.b + 1] }

\* dur = tK[b-1]-tK[a]; regions with dur < 3 are skipped
LongEnough_any(dur) == TRUE
LongEnough(dur) == ~(dur < MIN_PLATEAU_MS)

\* if (keepIdx.length<10) return fallbackTailMedian(t, kg0)
TooFewKept_never(n) == FALSE
TooFewKept(n) == n < MIN_KEPT

\* fallbackTailMedian(t, kg) for doubled kg; quality in hundredths
fallbackTailMedian(t, kg) ==
  LET first == t[1]
      last == t[Len(t)]
      tailStart4 == Max(4 * first, 4 * last - Max(4 * FALLBACK_TAIL_MS, last - first))
      tailIdx == SelectSeq([i \in DOMAIN t |-> i], LAMBDA i : 4 * t[i] >= tailStart4)
      tail == [j \in DOMAIN tailIdx |-> kg[tailIdx[j]]]
  IN [mode |-> "fallback-tail-median", weight |-> Med2(tail), quality |-> 65,
      start_s |-> tailStart4, end_s |-> 4 * last, n_points |-> Len(tail)]

\* The results detectStablePlateauV6 may return for the samples: weight
\* (four-fold), mode, window and n_points; quality of the fallback only.
detectStablePlateauV6(samples) ==
  LET series == Normalized(samples)
      kept == FloorFiltered(series)
  IN IF TooFewKept(Len(kept))
     THEN { fallbackTailMedian(TOf(series), [i \in DOMAIN series |-> 2 * series[i].kg]) }
     ELSE LET tK == TOf(kept)
              kg == hampel(KgOf(kept), HAMPEL_K)
              regions == { r \in Contiguous(StableMask(tK, kg)) :
                             LongEnough(tK[r.b] - tK[r.a]) }
          IN IF regions = {} THEN { fallbackTailMedian(tK, kg) }
             ELSE { [mode |-> "plateau-v6", weight |-> Med2(SubSeq(kg, r.a, r.b)),
                     start_s |-> 4 * tK[r.a], end_s |-> 4 * tK[r.b],
                     n_points |-> r.b - r.a + 1] : r \in regions }

\* Input series: samples `step` ms apart starting at 5 s, in time order or
\* reversed: z samples of 0 kg, p alternating between a and b, r at c, and q
\* alternating between a and b again.
Trace(z, p, r, q, a, b, c, step, rev) ==
  LET alt == [i \in 1..Max(p, q) |-> IF i % 2 = 1 THEN a ELSE b]
      kg == [i \in 1..z |-> 0] \o SubSeq(alt, 1, p) \o [i \in 1..r |-> c] \o SubSeq(alt, 1, q)
      n == Len(kg)
      s == [i \in 1..n |-> [t |-> 5000 + (i - 1) * step, kg |-> kg[i]]]
  IN IF rev THEN [i \in 1..n |-> s[n + 1 - i]] ELSE s

TraceWeights == { <<60, 62, 90>>, <<70, 70, 70>>, <<60, 62, 62>> }
TraceSteps == {100, 1000, 5000}

DetectInputs ==
  { [samples |-> Trace(z, p, r, q, w[1], w[2], w[3], step, rev)] :
      z \in {0, 1}, p \in {4, DetectLen}, r \in {5, 6, 8}, q \in {0, 4},
      w \in TraceWeights, step \in TraceSteps, rev \in BOOLEAN }

DetectInit ==
  /\ ServerInit
  /\ DeviceInit
  /\ env = FullEnv
  /\ wpc = [w \in Workers |-> "idle"]
  /\ wjobs = [w \in Workers |-> <<>>]
  /\ widx = [w \in Workers |-> 0]
  /\ wresp = [w \in Workers |-> NoResp]
  /\ iresp = NoResp
  /\ rresp = NoResp
  /\ \E a \in DetectInputs :
       call = [fn |-> "detectStablePlateauV6", pc |-> "called", arg |-> a,
               raw |-> [mode |-> "none", start_s |-> 0, end_s |-> 0]]

\* const raw = detectStablePlateauV6(samples)
Detect ==
  /\ call.pc = "called"
  /\ \E raw \in detectStablePlateauV6(call.arg.samples) :
       call' = [call EXCEPT !.pc = "returned", !.raw = raw]
  /\ UNCHANGED restVars

SpecDetect == DetectInit /\ [][Detect]_vars

\* t_last - t_first of the call's samples, in quarter milliseconds
SpanOfCall ==
  LET ts == { call.arg.samples[i].t : i \in DOMAIN call.arg.samples }
  IN 4 * ((CHOOSE x \in ts : \A y \in ts : y <= x) - (CHOOSE x \in ts : \A y \in ts : x <= y))

\* C20: a result of the detector with mode "plateau-v6" has
\* t_first <= start_s <= end_s <= t_last on the normalized series (t_first = 0)
\* and end_s - start_s >= 3 s.
C20_PlateauInside ==
  (call.pc = "returned" /\ call.raw.mode = "plateau-v6") =>
    /\ 0 <= call.raw.start_s
    /\ call.raw.start_s <= call.raw.end_s
    /\ call.raw.end_s <= SpanOfCall
    /\ call.raw.end_s - call.raw.start_s >= 4 * 3000

\* a plateau of exactly 3 s that ends before the last sample of a series given
\* in reverse order, whose first sample was floor-filtered
C20_ThreeSecondPlateau ==
  /\ call.pc = "returned"
  /\ call.raw.mode = "plateau-v6"
  /\ call.raw.end_s - call.raw.start_s = 4 * 3000
  /\ call.raw.end_s < SpanOfCall
  /\ call.arg.samples[1].t > call.arg.samples[2].t
  /\ \E i \in DOMAIN call.arg.samples : call.arg.samples[i].kg = 0


\* The kept samples of the call, and the stable runs in them as first and
\* last index with their duration in ms.
KeptOfDetect == FloorFiltered(Normalized(call.arg.samples))
RunsOfDetect ==
  LET tK == TOf(KeptOfDetect)
  IN { [a |-> r.a, b |-> r.b, dur |-> tK[r.b] - tK[r.a]] :
         r \in Contiguous(StableMask(tK, hampel(KgOf(KeptOfDetect), 15))) }

\* The series the fallback is computed on: every sample when fewer than ten
\* are kept, the kept samples otherwise.
FallbackSeries == IF Len(KeptOfDetect) < 10 THEN Normalized(call.arg.samples) ELSE KeptOfDetect

\* C21: the detector returns mode "fallback-tail-median" if and only if fewer
\* than 10 samples survive the floor filter or no stable run lasts 3 s or
\* more, and "plateau-v6" otherwise; the fallback has quality 0.65 and is
\* computed over the samples with t >= max(t_first, t_last - max(12 s,
\* 0.25 * duration)).
C21_FallbackTrigger ==
  (call.pc = "returned") =>
    LET s == FallbackSeries
        first == s[1].t
        last == s[Len(s)].t
        tailStart4 == Max(4 * first, 4 * last - Max(4 * 12000, last - first))
    IN /\ (call.raw.mode = "fallback-tail-median") <=>
            (Len(KeptOfDetect) < 10 \/ \A r \in RunsOfDetect : r.dur < 3000)
       /\ call.raw.mode # "fallback-tail-median" => call.raw.mode = "plateau-v6"
       /\ call.raw.mode = "fallback-tail-median" =>
            /\ call.raw.quality = 65
            /\ call.raw.start_s = tailStart4
            /\ call.raw.end_s = 4 * last
            /\ call.raw.n_points = Cardinality({ i \in DOMAIN s : 4 * s[i].t >= tailStart4 })

\* ten or more samples are kept and they hold a stable run, but none of 3 s:
\* the fallback was returned over a tail shorter than the series
C21_ShortRunFallsBack ==
  /\ call.pc = "returned"
  /\ call.raw.mode = "fallback-tail-median"
  /\ Len(KeptOfDetect) >= 10
  /\ RunsOfDetect # {}
  /\ call.raw.start_s > 4 * KeptOfDetect[1].t


\* The kg values of the call's samples whose time, counted from the first
\* sample, lies in the returned window [start_s, end_s].
KgInWindow ==
  LET s == call.arg.samples
      t0 == CHOOSE x \in { s[i].t : i \in DOMAIN s } : \A i \in DOMAIN s : x <= s[i].t
  IN { s[i].kg : i \in { j \in DOMAIN s : /\ 4 * (s[j].t - t0) >= call.raw.start_s
                                           /\ 4 * (s[j].t - t0) <= call.raw.end_s } }

\* C22: in either mode the returned weight lies between the least and the
\* greatest kg of the input samples whose timestamps fall in the returned
\* window [start_s, end_s].
C22_WeightWithinWindow ==
  (call.pc = "returned") =>
    \E lo, hi \in KgInWindow : 4 * lo <= call.raw.weight /\ call.raw.weight <= 4 * hi


(***************************************************************************)
(* Properties of the ingest endpoint's derived metrics                     *)
(***************************************************************************)
\* The numbers the request's samples carry as kg, and the greatest of them.
KgOfRequest(req) == { KgNumber(req.body.samples[i].kg).v : i \in DOMAIN req.body.samples }
GreatestKg(req) == CHOOSE m \in KgOfRequest(req) : \A k \in KgOfRequest(req) : k <= m

\* C23: for every accepted ingest request the stored and the returned peak_kg
\* equal the maximum kg among the parsed samples, and sample_count equals the
\* number of samples.
C23_PeakAndCount ==
  [][\A req \in IngestRequests :
       (req.method = "POST" /\ iresp'.status = 200 /\ Ingest(req)) =>
         /\ Len(weight_events') = Len(weight_events) + 1
         /\ weight_events'[Len(weight_events')].peak_kg = GreatestKg(req)
         /\ weight_events'[Len(weight_events')].sample_count = Len(req.body.samples)
         /\ iresp'.peak_kg = GreatestKg(req)
         /\ iresp'.sample_count = Len(req.body.samples)]_vars

\* an accepted request of two samples whose second kg is the greater one
C23_PeakIsSecond ==
  /\ iresp.status = 200
  /\ iresp.sample_count = 2
  /\ Len(weight_events) = 1
  /\ weight_events[1].samples[1].kg < weight_events[1].samples[2].kg
  /\ weight_events[1].peak_kg = weight_events[1].samples[2].kg
  /\ iresp.peak_kg = weight_events[1].peak_kg


(***************************************************************************)
(* Properties of the calibration store                                     *)
(***************************************************************************)
\* C24: after setup and after any sequence of cal, cal1, cal2, solve and
\* resetcal commands and reboots, the live factor equals the NVS key `cal` if
\* it is present and the compile-time default otherwise; resetcal removes the
\* key and restores the default, and a reboot loads the stored value.
C24_LiveFactorIsStored ==
  /\ [](currentCalFactor = IF nvs.has THEN nvs.cal ELSE Factor(986323333, 100000))
  /\ [][ /\ cmdResetCal => (~nvs'.has /\ currentCalFactor' = Factor(986323333, 100000))
         /\ Reboot => /\ nvs' = nvs
                      /\ nvs.has => currentCalFactor' = nvs.cal
                      /\ ~nvs.has => currentCalFactor' = Factor(986323333, 100000) ]_vars

\* the device has restarted with a saved factor and runs on it
C24_RebootedOnSavedFactor ==
  /\ ev.op = "setup"
  /\ nvs.has
  /\ currentCalFactor = nvs.cal
  /\ currentCalFactor # CAL_FACTOR


\* C28: `solve` changes the factor only if both the cal1 and the cal2 point
\* have been captured since the last successful solve and |m2 - m1| is at
\* least the floor (0.001 g); it then sets and persists counts per gram =
\* (r2 - r1) / (m2 - m1) and clears both points; otherwise the factor, NVS and
\* the points are unchanged.  A point counts as captured from a cal1 / cal2
\* that measured until a solve that solved or a restart.
C28_SolveNeedsBothPoints ==
  [][ /\ (calHasP1' /\ ~calHasP1) => (ev'.op = "cal1" /\ ev'.out = "measured")
      /\ (calHasP2' /\ ~calHasP2) => (ev'.op = "cal2" /\ ev'.out = "measured")
      /\ (calHasP1 /\ ~calHasP1') => (ev'.op = "setup" \/ (ev'.op = "solve" /\ ev'.out = "solved"))
      /\ (calHasP2 /\ ~calHasP2') => (ev'.op = "setup" \/ (ev'.op = "solve" /\ ev'.out = "solved"))
      /\ \A d \in CmdMs :
           (ev'.op = "solve" /\ cmdSolve2pt(d)) =>
             IF calHasP1 /\ calHasP2 /\ calP2.mass # calP1.mass
             THEN /\ currentCalFactor' =
                       [num |-> calP2.raw - calP1.raw, den |-> calP2.mass - calP1.mass]
                  /\ nvs' = [has |-> TRUE, cal |-> currentCalFactor']
                  /\ ~calHasP1' /\ ~calHasP2'
             ELSE UNCHANGED <<currentCalFactor, nvs, calHasP1, calHasP2, calP1, calP2>> ]_vars

\* a solve from two captured points of different mass has set and stored the
\* slope and cleared the points
C28_Solved ==
  /\ ev.op = "solve"
  /\ ev.out = "solved"
  /\ calP1.mass # calP2.mass
  /\ currentCalFactor = [num |-> calP2.raw - calP1.raw, den |-> calP2.mass - calP1.mass]
  /\ nvs = [has |-> TRUE, cal |-> currentCalFactor]
  /\ ~calHasP1 /\ ~calHasP2


(***************************************************************************)
(* Properties of the capture state machine                                 *)
(***************************************************************************)
\* An un-paused loop iteration in IDLE whose poll was due.
IdlePoll == g_state = "IDLE" /\ ev'.op = "loop" /\ ev'.out \in {"start", "poll"}

\* C25: at an un-paused IDLE poll the machine goes ACTIVE if and only if it is
\* armed, rise = EMA_now - EMA_prev >= RISE_MIN_KG and |EMA| >= TRIGGER_KG; the
\* transition clears the buffer, sets session_t0 = now, resets the release
\* timer and consumes armOk, which is granted only while the EMA is within
\* ARM_BAND_KG, so ACTIVE is entered once per rising edge.
C25_TriggerOnArmedRisingEdge ==
  [][ /\ IdlePoll =>
           (Started <=> /\ armOk
                        /\ prevIdleKgEMA' - prevIdleKgEMA >= 2
                        /\ Abs(idleKgEMA') >= 40)
      /\ Started =>
           /\ IdlePoll /\ ~Paused
           /\ g_buf' = <<>>
           /\ session_t0' = Millis
           /\ below_start_ms' = 0
           /\ ~armOk'
      /\ (armOk' /\ ~armOk) => (IdlePoll /\ Abs(prevIdleKgEMA') <= 10) ]_vars

\* a session has just started from a poll that found the gate armed
C25_EnteredActive ==
  /\ g_state = "ACTIVE"
  /\ ev.out = "start"
  /\ g_buf = <<>>
  /\ session_t0 = Millis
  /\ below_start_ms = 0
  /\ ~armOk
  /\ Abs(idleKgEMA) >= TRIGGER_KG


\* The samples at the end of the buffer that are all under RELEASE_KG span at
\* least BELOW_HOLD_MS.
ReleasedFor(buf) ==
  \E i \in 1..Len(buf) :
    /\ \A j \in i..Len(buf) : Abs(buf[j].kg) < 30
    /\ buf[Len(buf)].t - buf[i].t >= 2000

\* C26: while ACTIVE, a session is terminated by hysteresis only after
\* consecutive samples with |kg| < RELEASE_KG that span at least BELOW_HOLD_MS;
\* a sample with |kg| >= RELEASE_KG resets the release timer.
C26_HysteresisNeedsHold ==
  [][ /\ (g_state = "ACTIVE" /\ ev'.op = "loop" /\ ev'.term \in {"hysteresis", "both"}) =>
           (Len(g_buf') = Len(g_buf) + 1 /\ ReleasedFor(g_buf'))
      /\ (g_state = "ACTIVE" /\ Len(g_buf') = Len(g_buf) + 1
            /\ Abs(g_buf'[Len(g_buf')].kg) >= 30) =>
           (below_start_ms' = 0 /\ ev'.term \notin {"hysteresis", "both"}) ]_vars

\* a session ended by hysteresis whose release timer had been reset by a
\* sample at or above RELEASE_KG
C26_ReleasedAfterReset ==
  /\ ev.op = "loop"
  /\ ev.term = "hysteresis"
  /\ Len(g_buf) = 3
  /\ Abs(g_buf[1].kg) >= RELEASE_KG
  /\ ReleasedFor(g_buf)


\* C27: during ACTIVE the buffer never holds more than MAX_SAMPLES entries;
\* a loop iteration leaves it as it is or appends one entry, whose t is not
\* below the last entry's, and appends none once MAX_SAMPLES are held.
C27_BufferAppendOnly ==
  [][ (g_state = "ACTIVE" /\ ev'.op \in {"loop", "tick"}) =>
        /\ Len(g_buf') <= 6000
        /\ \/ g_buf' = g_buf
           \/ /\ Len(g_buf) < 6000
              /\ Len(g_buf') = Len(g_buf) + 1
              /\ SubSeq(g_buf', 1, Len(g_buf)) = g_buf
              /\ g_buf # <<>> => g_buf'[Len(g_buf')].t >= g_buf[Len(g_buf)].t ]_vars

\* the buffer is full and a later sample has been read and not appended
C27_SamplePastCap ==
  /\ g_state = "ACTIVE"
  /\ ev.op = "loop"
  /\ ev.out = "sample"
  /\ Len(g_buf) = MAX_SAMPLES
  /\ Millis - session_t0 > g_buf[MAX_SAMPLES].t

=============================================================================
